---- MODULE Spec2Model ----
(***************************************************************************)
(* A model of DexParser (src/src/parsers/dex_parser.py): the parse() of a  *)
(* DEX file into a header, a string pool and five id tables.               *)
(*                                                                         *)
(* Bytes are naturals 0..255 and a buffer is a sequence of bytes.  Python  *)
(* integers are unbounded and the format's u32 fields reach 0xFFFFFFFF,    *)
(* which is beyond the integers of the model checker, so every integer     *)
(* that is read from the buffer is kept as a sequence of 16-bit limbs,     *)
(* least significant first, without trailing zero limbs (0 is <<>>).       *)
(* Python strings are sequences of code points.                            *)
(***************************************************************************)
EXTENDS Integers, Sequences, FiniteSets, TLC

\* ------------------------------------------------------------------ bounds

\* most entries of the table an input family varies
MaxEntries == 2
\* most calls of parse() on the one DexParser
MaxParses == 2
\* most bytes before, and most bytes after, a ULEB128 encoding in a buffer
MaxAround == 2
\* most calls of DexEditor.load_dex_file
MaxLoads == 3
\* most bytes of a buffer the reads are tried on at every offset
MaxBuf == 3
MaxConversions == 2

\* ------------------------------------------------- integers read from bytes

Base == 65536

Min(a, b) == IF a <= b THEN a ELSE b

RECURSIVE Norm(_)
\* drop the zero limbs at the most significant end
Norm(s) == IF s = <<>> THEN <<>>
           ELSE IF s[Len(s)] = 0 THEN Norm(SubSeq(s, 1, Len(s) - 1))
           ELSE s

\* a natural below 2^31 as limbs
Big(n) == Norm(<<n % Base, n \div Base>>)

\* limb k (from 1) of a limb sequence, 0 past its end
Limb(b, k) == IF k <= Len(b) THEN b[k] ELSE 0

\* the limbs stand for a natural below 2^31
Fits(b) == Len(b) <= 1 \/ (Len(b) = 2 /\ b[2] < 32768)

ToNat(b) == Limb(b, 1) + Base * Limb(b, 2)

\* b < n, for a natural n
Lt(b, n) == Fits(b) /\ ToNat(b) < n

\* min(b, n), for a natural n
Clamp(b, n) == IF Lt(b, n) THEN ToNat(b) ELSE n

RECURSIVE AddCarry(_, _, _)
AddCarry(a, b, c) ==
    IF a = <<>> /\ b = <<>> THEN (IF c = 0 THEN <<>> ELSE <<c>>)
    ELSE LET s == Limb(a, 1) + Limb(b, 1) + c
         IN  <<s % Base>> \o AddCarry(IF a = <<>> THEN <<>> ELSE Tail(a),
                                      IF b = <<>> THEN <<>> ELSE Tail(b),
                                      s \div Base)

\* a + b on limbs
Add(a, b) == Norm(AddCarry(a, b, 0))

RECURSIVE Pow2(_)
Pow2(n) == IF n = 0 THEN 1 ELSE 2 * Pow2(n - 1)

\* result | (v << shift), for v < 128 and result < 2^shift
OrShift(result, v, shift) ==
    LET k == shift \div 16
        w == v * Pow2(shift % 16)
        n == IF Len(result) > k + 2 THEN Len(result) ELSE k + 2
        padded == [j \in 1..n |-> Limb(result, j)]
    IN  Norm([padded EXCEPT ![k + 1] = @ + (w % Base),
                            ![k + 2] = @ + (w \div Base)])

\* data[start:stop] of Python, start and stop as limbs
PySlice(data, start, stop) ==
    LET lo == Clamp(start, Len(data))
        hi == Clamp(stop, Len(data))
    IN  IF lo >= hi THEN <<>> ELSE SubSeq(data, lo + 1, hi)

\* struct '<H' and '<I' on a slice s that has the bytes, at byte k (from 0)
U16(s, k) == s[k + 1] + 256 * s[k + 2]
U32(s, k) == Norm(<<U16(s, k), U16(s, k + 2)>>)

NoIndex == <<65535, 65535>>

\* ------------------------------------------------------------ string data

RECURSIVE Uleb128Loop(_, _, _, _, _)
\* the loop with line 241 as shift += 8
Uleb128Loop_Shift8(data, off, result, shift, bytes_read) ==
    IF ~(off + bytes_read < Len(data))
    THEN [value |-> result, bytes_read |-> bytes_read]
    ELSE IF data[off + bytes_read + 1] < 128
    THEN [value |-> OrShift(result, data[off + bytes_read + 1] % 128, shift),
          bytes_read |-> bytes_read + 1]
    ELSE Uleb128Loop(data, off,
                     OrShift(result, data[off + bytes_read + 1] % 128, shift),
                     shift + 8, bytes_read + 1)

\* the while loop of _read_uleb128; off is a natural below Len(data)
Uleb128Loop(data, off, result, shift, bytes_read) ==
    IF ~(off + bytes_read < Len(data))
    THEN [value |-> result, bytes_read |-> bytes_read]
    ELSE LET byte == data[off + bytes_read + 1]
             r2 == OrShift(result, byte % 128, shift)
         IN  IF byte < 128
             THEN [value |-> r2, bytes_read |-> bytes_read + 1]
             ELSE Uleb128Loop(data, off, r2, shift + 7, bytes_read + 1)

\* the loop as a do-while: a byte counted before the test of the offset
_read_uleb128_CountFirst(data, offset) ==
    IF Lt(offset, Len(data))
    THEN Uleb128Loop(data, ToNat(offset), <<>>, 0, 0)
    ELSE [value |-> <<>>, bytes_read |-> 1]

\* _read_uleb128(offset): (result, bytes_read); an offset at or past the end
\* of the buffer never enters the loop
_read_uleb128(data, offset) ==
    IF Lt(offset, Len(data))
    THEN Uleb128Loop(data, ToNat(offset), <<>>, 0, 0)
    ELSE [value |-> <<>>, bytes_read |-> 0]

Replacement == 65533

Cont(b) == 128 <= b /\ b <= 191

\* the first character of a non-empty byte sequence under
\* bytes.decode('utf-8', errors='replace'), and the bytes it takes: an
\* ill-formed sequence becomes one U+FFFD and decoding resumes at the byte
\* that broke it
Utf8First(s) ==
    LET b0 == s[1]
        n == Len(s)
        lo2 == IF b0 = 224 THEN 160 ELSE IF b0 = 240 THEN 144 ELSE 128
        hi2 == IF b0 = 237 THEN 159 ELSE IF b0 = 244 THEN 143 ELSE 191
        ok2 == n >= 2 /\ lo2 <= s[2] /\ s[2] <= hi2
        ok3 == n >= 3 /\ Cont(s[3])
        ok4 == n >= 4 /\ Cont(s[4])
        Bad(k) == [cp |-> Replacement, n |-> k]
    IN
    IF b0 < 128 THEN [cp |-> b0, n |-> 1]
    ELSE IF 194 <= b0 /\ b0 <= 223 THEN
      IF n >= 2 /\ Cont(s[2])
      THEN [cp |-> (b0 - 192) * 64 + (s[2] - 128), n |-> 2]
      ELSE Bad(1)
    ELSE IF 224 <= b0 /\ b0 <= 239 THEN
      IF ~ok2 THEN Bad(1)
      ELSE IF ~ok3 THEN Bad(2)
      ELSE [cp |-> (b0 - 224) * 4096 + (s[2] - 128) * 64 + (s[3] - 128),
            n |-> 3]
    ELSE IF 240 <= b0 /\ b0 <= 244 THEN
      IF ~ok2 THEN Bad(1)
      ELSE IF ~ok3 THEN Bad(2)
      ELSE IF ~ok4 THEN Bad(3)
      ELSE [cp |-> (b0 - 240) * 262144 + (s[2] - 128) * 4096
                   + (s[3] - 128) * 64 + (s[4] - 128),
            n |-> 4]
    ELSE Bad(1)

RECURSIVE Utf8Chunk(_, _)
Utf8Cons(cp, r) == [out |-> <<cp>> \o r.out, rest |-> r.rest]

Utf8After(s, c, k) ==
    Utf8Cons(c.cp, Utf8Chunk(SubSeq(s, c.n + 1, Len(s)), k - 1))

\* the first k characters of s decoded, and the bytes left after them
Utf8Chunk(s, k) ==
    IF s = <<>> \/ k = 0 THEN [out |-> <<>>, rest |-> s]
    ELSE Utf8After(s, Utf8First(s), k)

RECURSIVE Utf8Decode(_)
Utf8Join(r) == r.out \o Utf8Decode(r.rest)

\* bytes.decode('utf-8', errors='replace'), sixteen characters at a time
Utf8Decode(s) ==
    IF s = <<>> THEN <<>> ELSE Utf8Join(Utf8Chunk(s, 16))

\* the decoding strict: the error caught by the except, '' returned
StringAt_Strict(data, string_start, length) ==
    IF Replacement \in
         {Utf8Decode(PySlice(data, string_start, Add(string_start, length)))[j] :
            j \in 1..Len(Utf8Decode(PySlice(data, string_start,
                                            Add(string_start, length))))}
    THEN <<>>
    ELSE Utf8Decode(PySlice(data, string_start, Add(string_start, length)))

\* the slice tested against the length: '' for a string the end cuts
StringAt_WholeOrEmpty(data, string_start, length) ==
    IF Lt(length, Len(PySlice(data, string_start, Add(string_start, length))) + 1)
    THEN Utf8Decode(PySlice(data, string_start, Add(string_start, length)))
    ELSE <<>>

\* lines 218-222: self.data[string_start:string_start + length], decoded
StringAt(data, string_start, length) ==
    Utf8Decode(PySlice(data, string_start, Add(string_start, length)))

\* line 218 as string_start = offset, the length prefix not skipped
StringFrom_PrefixKept(data, offset, r) ==
    StringAt(data, offset, r.value)

\* lines 215-222, from what _read_uleb128 gave
StringFrom(data, offset, r) ==
    StringAt(data, Add(offset, Big(r.bytes_read)), r.value)

\* _read_string_data(offset).  Nothing in the try block can raise: the loop
\* of _read_uleb128 reads inside the buffer only, a slice clamps its bounds
\* and the decoding replaces what it cannot decode; the except branch is dead.
_read_string_data(data, offset) ==
    StringFrom(data, offset, _read_uleb128(data, offset))

\* ------------------------------------------------------------------ struct

\* a struct format as its items: n bytes ("s"), a u16 ("H") or a u32 ("I")
Str(n) == [kind |-> "s", n |-> n]
H == [kind |-> "H", n |-> 2]
I == [kind |-> "I", n |-> 4]
Rep(k, item) == [j \in 1..k |-> item]

RECURSIVE calcsize(_)
calcsize(fmt) == IF fmt = <<>> THEN 0 ELSE fmt[1].n + calcsize(Tail(fmt))

RECURSIVE UnpackFrom(_, _, _)
UnpackFrom(fmt, buf, k) ==
    IF fmt = <<>> THEN <<>>
    ELSE LET item == fmt[1]
             v == IF item.kind = "s" THEN SubSeq(buf, k + 1, k + item.n)
                  ELSE IF item.kind = "H" THEN Norm(<<U16(buf, k)>>)
                  ELSE U32(buf, k)
         IN  <<v>> \o UnpackFrom(Tail(fmt), buf, k + item.n)

\* struct.unpack(fmt, buf): raises struct.error unless buf has exactly the
\* bytes of the format; all items little-endian ('<')
unpack(fmt, buf) ==
    IF Len(buf) # calcsize(fmt)
    THEN [raised |-> "struct.error", v |-> <<>>]
    ELSE [raised |-> "none", v |-> UnpackFrom(fmt, buf, 0)]

\* -------------------------------------------------------------- DexParser

None == [none |-> TRUE]

DEX_MAGIC == <<100, 101, 120, 10>>
DEX_VERSIONS == {<<48, 51, 53, 0>>, <<48, 51, 55, 0>>,
                 <<48, 51, 56, 0>>, <<48, 51, 57, 0>>}

\* DexParser.__init__
NewParser == [data |-> <<>>, header |-> None, string_ids |-> <<>>,
              type_ids |-> <<>>, proto_ids |-> <<>>, field_ids |-> <<>>,
              method_ids |-> <<>>, class_defs |-> <<>>, strings |-> <<>>]

\* what a method of the parser leaves: the parser and the exception raised
Ok(self) == [self |-> self, raised |-> "none"]
Raise(self, e) == [self |-> self, raised |-> e]

\* _validate_magic without the test of the version
_validate_magic_MagicOnly(self) ==
    IF Len(self.data) < 8 THEN FALSE
    ELSE SubSeq(self.data, 1, 4) = DEX_MAGIC

_validate_magic(self) ==
    IF Len(self.data) < 8 THEN FALSE
    ELSE SubSeq(self.data, 1, 4) = DEX_MAGIC
         /\ SubSeq(self.data, 5, 8) \in DEX_VERSIONS

\* a format that has the twenty u32 of the DexHeader after the signature
HeaderFormat_Twenty == <<Str(8), I, Str(20)>> \o Rep(20, I)

\* the format of the header as line 160 writes it: '<8s I 20s 7I 8I'
HeaderFormat == <<Str(8), I, Str(20)>> \o Rep(7, I) \o Rep(8, I)

\* header_data[k] of Python, k from 0
Item(t, k) == t[k + 1]

\* the DexHeader of lines 166-191, from the unpacked tuple
HeaderFrom(header_data) ==
    [magic |-> SubSeq(Item(header_data, 0), 1, 4),
     version |-> Norm(SubSeq(Item(header_data, 0), 5, 8)),
     checksum |-> Item(header_data, 1),
     signature |-> Item(header_data, 2),
     file_size |-> Item(header_data, 3),
     header_size |-> Item(header_data, 4),
     endian_tag |-> Item(header_data, 5),
     link_size |-> Item(header_data, 6),
     link_off |-> Item(header_data, 7),
     map_off |-> Item(header_data, 8),
     string_ids_size |-> Item(header_data, 9),
     string_ids_off |-> Item(header_data, 10),
     type_ids_size |-> Item(header_data, 11),
     type_ids_off |-> Item(header_data, 12),
     proto_ids_size |-> Item(header_data, 13),
     proto_ids_off |-> Item(header_data, 14),
     field_ids_size |-> Item(header_data, 15),
     field_ids_off |-> Item(header_data, 16),
     method_ids_size |-> Item(header_data, 17),
     method_ids_off |-> Item(header_data, 18),
     class_defs_size |-> Item(header_data, 19),
     class_defs_off |-> Item(header_data, 20),
     data_size |-> Item(header_data, 21),
     data_off |-> Item(header_data, 22)]

\* lines 162-191, from what struct.unpack gave
HeaderOrRaise(self, u) ==
    IF u.raised # "none" THEN Raise(self, u.raised)
    ELSE IF \E b \in {Item(u.v, 0)[j] : j \in 5..8} : b > 127
    THEN Raise(self, "UnicodeDecodeError")
    ELSE IF Len(u.v) < 23 THEN Raise(self, "IndexError")
    ELSE Ok([self EXCEPT !.header = HeaderFrom(u.v)])

\* _parse_header without the test of the length
_parse_header_NoLengthCheck(self) ==
    HeaderOrRaise(self, unpack(HeaderFormat, PySlice(self.data, <<>>, Big(112))))

_parse_header(self) ==
    IF Len(self.data) < 112 THEN Raise(self, "ValueError")
    ELSE HeaderOrRaise(self, unpack(HeaderFormat, PySlice(self.data, <<>>, Big(112))))

\* seq[idx] of Python for an index known to be in range
At(seq, idx) == seq[ToNat(idx) + 1]

\* the record taken in the byte order the header names: its bytes reversed
\* when endian_tag is the REVERSE_ENDIAN_CONSTANT 0x78563412
Record_Swapped(self, offset, n) ==
    IF self.header.endian_tag = <<13330, 30806>>
    THEN [j \in 1..Len(PySlice(self.data, offset, Add(offset, Big(n)))) |->
            PySlice(self.data, offset, Add(offset, Big(n)))
              [Len(PySlice(self.data, offset, Add(offset, Big(n)))) + 1 - j]]
    ELSE PySlice(self.data, offset, Add(offset, Big(n)))

\* data[offset:offset+n]
Record(self, offset, n) == PySlice(self.data, offset, Add(offset, Big(n)))

\* lines 201-205: the DexStringId of a string_data_off
StringIdOf(data, string_data_off) ==
    [string_data_off |-> string_data_off,
     string_data |-> _read_string_data(data, string_data_off)]

\* line 206 under an 'if string_data:', an empty string not appended
StringIdFrom_SkipEmpty(self, u) ==
    IF u.raised # "none" THEN Raise(self, u.raised)
    ELSE Ok([self EXCEPT
               !.strings = IF StringIdOf(self.data, Item(u.v, 0)).string_data = <<>>
                           THEN @
                           ELSE Append(@, StringIdOf(self.data, Item(u.v, 0)).string_data),
               !.string_ids = Append(@, StringIdOf(self.data, Item(u.v, 0)))])

\* lines 200-208, from what struct.unpack gave
StringIdFrom(self, u) ==
    IF u.raised # "none" THEN Raise(self, u.raised)
    ELSE Ok([self EXCEPT
               !.strings = Append(@, StringIdOf(self.data, Item(u.v, 0)).string_data),
               !.string_ids = Append(@, StringIdOf(self.data, Item(u.v, 0)))])

\* one iteration of the loop of _parse_string_ids (lines 200-209)
StringIdStep(self, offset) ==
    StringIdFrom(self, unpack(<<I>>, Record(self, offset, 4)))

\* lines 254-257: the DexTypeId of a descriptor_idx
TypeIdOf(self, descriptor_idx) ==
    [descriptor_idx |-> descriptor_idx,
     descriptor |-> IF Lt(descriptor_idx, Len(self.strings))
                    THEN At(self.strings, descriptor_idx) ELSE <<>>]

\* the descriptor taken without the test of the index: IndexError
TypeIdFrom_Unchecked(self, u) ==
    IF u.raised # "none" THEN Raise(self, u.raised)
    ELSE IF ~Lt(Item(u.v, 0), Len(self.strings)) THEN Raise(self, "IndexError")
    ELSE Ok([self EXCEPT !.type_ids = Append(@, TypeIdOf(self, Item(u.v, 0)))])

\* line 258 followed by a self.strings.append(descriptor)
TypeIdFrom_Interned(self, u) ==
    IF u.raised # "none" THEN Raise(self, u.raised)
    ELSE Ok([self EXCEPT
               !.type_ids = Append(@, TypeIdOf(self, Item(u.v, 0))),
               !.strings = Append(@, TypeIdOf(self, Item(u.v, 0)).descriptor)])

TypeIdFrom(self, u) ==
    IF u.raised # "none" THEN Raise(self, u.raised)
    ELSE Ok([self EXCEPT !.type_ids = Append(@, TypeIdOf(self, Item(u.v, 0)))])

\* one iteration of the loop of _parse_type_ids (lines 253-260)
TypeIdStep(self, offset) ==
    TypeIdFrom(self, unpack(<<I>>, Record(self, offset, 4)))

\* lines 271-281: the DexProtoId of the three fields
ProtoIdOf(self, shorty_idx, return_type_idx, parameters_off) ==
    [shorty_idx |-> shorty_idx,
     return_type_idx |-> return_type_idx,
     parameters_off |-> parameters_off,
     shorty |-> IF Lt(shorty_idx, Len(self.strings))
                THEN At(self.strings, shorty_idx) ELSE <<>>,
     return_type |-> IF Lt(return_type_idx, Len(self.type_ids))
                     THEN At(self.type_ids, return_type_idx).descriptor
                     ELSE <<>>,
     parameters |-> <<>>]

ProtoIdFrom(self, u) ==
    IF u.raised # "none" THEN Raise(self, u.raised)
    ELSE Ok([self EXCEPT !.proto_ids =
               Append(@, ProtoIdOf(self, Item(u.v, 0), Item(u.v, 1), Item(u.v, 2)))])

\* one iteration of the loop of _parse_proto_ids (lines 269-284)
ProtoIdStep(self, offset) ==
    ProtoIdFrom(self, unpack(Rep(3, I), Record(self, offset, 12)))

\* the tests of type_idx and name_idx nested under the test of class_idx
FieldIdOf_Nested(self, class_idx, type_idx, name_idx) ==
    [class_idx |-> class_idx,
     type_idx |-> type_idx,
     name_idx |-> name_idx,
     class_name |-> IF Lt(class_idx, Len(self.type_ids))
                    THEN At(self.type_ids, class_idx).descriptor ELSE <<>>,
     type_name |-> IF Lt(class_idx, Len(self.type_ids))
                      /\ Lt(type_idx, Len(self.type_ids))
                   THEN At(self.type_ids, type_idx).descriptor ELSE <<>>,
     field_name |-> IF Lt(class_idx, Len(self.type_ids))
                       /\ Lt(name_idx, Len(self.strings))
                    THEN At(self.strings, name_idx) ELSE <<>>]

\* lines 295-306: the DexFieldId of the three fields
FieldIdOf(self, class_idx, type_idx, name_idx) ==
    [class_idx |-> class_idx,
     type_idx |-> type_idx,
     name_idx |-> name_idx,
     class_name |-> IF Lt(class_idx, Len(self.type_ids))
                    THEN At(self.type_ids, class_idx).descriptor ELSE <<>>,
     type_name |-> IF Lt(type_idx, Len(self.type_ids))
                   THEN At(self.type_ids, type_idx).descriptor ELSE <<>>,
     field_name |-> IF Lt(name_idx, Len(self.strings))
                    THEN At(self.strings, name_idx) ELSE <<>>]

FieldIdFrom(self, u) ==
    IF u.raised # "none" THEN Raise(self, u.raised)
    ELSE Ok([self EXCEPT !.field_ids =
               Append(@, FieldIdOf(self, Item(u.v, 0), Item(u.v, 1), Item(u.v, 2)))])

\* one iteration of the loop of _parse_field_ids (lines 293-309)
FieldIdStep(self, offset) ==
    FieldIdFrom(self, unpack(<<H, H, I>>, Record(self, offset, 8)))

\* lines 320-331: the DexMethodId of the three fields
MethodIdOf(self, class_idx, proto_idx, name_idx) ==
    [class_idx |-> class_idx,
     proto_idx |-> proto_idx,
     name_idx |-> name_idx,
     class_name |-> IF Lt(class_idx, Len(self.type_ids))
                    THEN At(self.type_ids, class_idx).descriptor ELSE <<>>,
     prototype |-> IF Lt(proto_idx, Len(self.proto_ids))
                   THEN At(self.proto_ids, proto_idx).shorty ELSE <<>>,
     method_name |-> IF Lt(name_idx, Len(self.strings))
                     THEN At(self.strings, name_idx) ELSE <<>>]

MethodIdFrom(self, u) ==
    IF u.raised # "none" THEN Raise(self, u.raised)
    ELSE Ok([self EXCEPT !.method_ids =
               Append(@, MethodIdOf(self, Item(u.v, 0), Item(u.v, 1), Item(u.v, 2)))])

\* one iteration of the loop of _parse_method_ids (lines 318-334)
MethodIdStep(self, offset) ==
    MethodIdFrom(self, unpack(<<H, H, I>>, Record(self, offset, 8)))

\* the superclass resolved from class_data[0] and without the sentinel test
ClassDefOf_SuperFromClass(self, class_data) ==
    [class_idx |-> Item(class_data, 0),
     access_flags |-> Item(class_data, 1),
     superclass_idx |-> Item(class_data, 2),
     interfaces_off |-> Item(class_data, 3),
     source_file_idx |-> Item(class_data, 4),
     annotations_off |-> Item(class_data, 5),
     class_data_off |-> Item(class_data, 6),
     static_values_off |-> Item(class_data, 7),
     class_name |->
       IF Lt(Item(class_data, 0), Len(self.type_ids))
       THEN At(self.type_ids, Item(class_data, 0)).descriptor ELSE <<>>,
     superclass_name |->
       IF Lt(Item(class_data, 0), Len(self.type_ids))
       THEN At(self.type_ids, Item(class_data, 0)).descriptor ELSE <<>>,
     source_file |->
       IF Item(class_data, 4) # NoIndex
          /\ Lt(Item(class_data, 4), Len(self.strings))
       THEN At(self.strings, Item(class_data, 4)) ELSE <<>>]

\* lines 345-361: the DexClassDef of the eight fields
ClassDefOf(self, class_data) ==
    [class_idx |-> Item(class_data, 0),
     access_flags |-> Item(class_data, 1),
     superclass_idx |-> Item(class_data, 2),
     interfaces_off |-> Item(class_data, 3),
     source_file_idx |-> Item(class_data, 4),
     annotations_off |-> Item(class_data, 5),
     class_data_off |-> Item(class_data, 6),
     static_values_off |-> Item(class_data, 7),
     class_name |->
       IF Lt(Item(class_data, 0), Len(self.type_ids))
       THEN At(self.type_ids, Item(class_data, 0)).descriptor ELSE <<>>,
     superclass_name |->
       IF Item(class_data, 2) # NoIndex
          /\ Lt(Item(class_data, 2), Len(self.type_ids))
       THEN At(self.type_ids, Item(class_data, 2)).descriptor ELSE <<>>,
     source_file |->
       IF Item(class_data, 4) # NoIndex
          /\ Lt(Item(class_data, 4), Len(self.strings))
       THEN At(self.strings, Item(class_data, 4)) ELSE <<>>]

ClassDefFrom(self, u) ==
    IF u.raised # "none" THEN Raise(self, u.raised)
    ELSE Ok([self EXCEPT !.class_defs = Append(@, ClassDefOf(self, u.v))])

\* one iteration of the loop of _parse_class_defs (lines 343-364)
ClassDefStep(self, offset) ==
    ClassDefFrom(self, unpack(Rep(8, I), Record(self, offset, 32)))

Stages == <<"string_ids", "type_ids", "proto_ids", "field_ids",
            "method_ids", "class_defs">>

\* line 309 as offset += 12
Stride_FieldsTwelve(stage) ==
    CASE stage = "string_ids" -> 4
      [] stage = "type_ids" -> 4
      [] stage = "proto_ids" -> 12
      [] stage = "field_ids" -> 12
      [] stage = "method_ids" -> 8
      [] stage = "class_defs" -> 32

\* the bytes of one entry of a table, the 'offset +=' of its loop
Stride(stage) ==
    CASE stage = "string_ids" -> 4
      [] stage = "type_ids" -> 4
      [] stage = "proto_ids" -> 12
      [] stage = "field_ids" -> 8
      [] stage = "method_ids" -> 8
      [] stage = "class_defs" -> 32

Step(stage, self, offset) ==
    CASE stage = "string_ids" -> StringIdStep(self, offset)
      [] stage = "type_ids" -> TypeIdStep(self, offset)
      [] stage = "proto_ids" -> ProtoIdStep(self, offset)
      [] stage = "field_ids" -> FieldIdStep(self, offset)
      [] stage = "method_ids" -> MethodIdStep(self, offset)
      [] stage = "class_defs" -> ClassDefStep(self, offset)

\* header.<stage>_size and header.<stage>_off
SizeOf(header, stage) ==
    CASE stage = "string_ids" -> header.string_ids_size
      [] stage = "type_ids" -> header.type_ids_size
      [] stage = "proto_ids" -> header.proto_ids_size
      [] stage = "field_ids" -> header.field_ids_size
      [] stage = "method_ids" -> header.method_ids_size
      [] stage = "class_defs" -> header.class_defs_size

OffOf(header, stage) ==
    CASE stage = "string_ids" -> header.string_ids_off
      [] stage = "type_ids" -> header.type_ids_off
      [] stage = "proto_ids" -> header.proto_ids_off
      [] stage = "field_ids" -> header.field_ids_off
      [] stage = "method_ids" -> header.method_ids_off
      [] stage = "class_defs" -> header.class_defs_off

RECURSIVE TableLoop(_, _, _, _)
\* the loop after the iteration that left r: an entry that raises ends the
\* loop with the entries appended so far
TableNext(stage, r, i, offset) ==
    IF r.raised # "none" THEN r
    ELSE TableLoop(stage, r.self, i + 1, Add(offset, Big(Stride(stage))))

\* for i in range(size): ...; offset += stride
TableLoop(stage, self, i, offset) ==
    IF Lt(SizeOf(self.header, stage), i + 1) THEN Ok(self)
    ELSE TableNext(stage, Step(stage, self, offset), i, offset)

\* _parse_string_ids, _parse_type_ids, _parse_proto_ids, _parse_field_ids,
\* _parse_method_ids and _parse_class_defs: the guard, then the loop
ParseTable(stage, self) ==
    IF self.header = None \/ SizeOf(self.header, stage) = <<>> THEN Ok(self)
    ELSE TableLoop(stage, self, 0, OffOf(self.header, stage))

RECURSIVE ParseTables(_, _)
\* the stages after stage k left r: an exception skips them
TablesNext(r, k) ==
    IF r.raised # "none" THEN r ELSE ParseTables(r.self, k + 1)

\* lines 131-136 of parse(): the six table stages from stage k on, in order
ParseTables(self, k) ==
    IF k > Len(Stages) THEN Ok(self)
    ELSE TablesNext(ParseTable(Stages[k], self), k)

\* line 376 as 'types_count': len(self.strings)
get_summary_TypesFromStrings(self) ==
    IF self.header = None THEN [empty |-> TRUE]
    ELSE [version |-> self.header.version,
          file_size |-> self.header.file_size,
          checksum |-> self.header.checksum,
          strings_count |-> Len(self.string_ids),
          types_count |-> Len(self.strings),
          prototypes_count |-> Len(self.proto_ids),
          fields_count |-> Len(self.field_ids),
          methods_count |-> Len(self.method_ids),
          classes_count |-> Len(self.class_defs)]

\* get_summary(), without the file path
get_summary(self) ==
    IF self.header = None THEN [empty |-> TRUE]
    ELSE [version |-> self.header.version,
          file_size |-> self.header.file_size,
          checksum |-> self.header.checksum,
          strings_count |-> Len(self.string_ids),
          types_count |-> Len(self.type_ids),
          prototypes_count |-> Len(self.proto_ids),
          fields_count |-> Len(self.field_ids),
          methods_count |-> Len(self.method_ids),
          classes_count |-> Len(self.class_defs)]

\* 'if class_def.class_name', 'if method_id.method_name': a string that is
\* not empty
Truthy(str) == str # <<>>

\* lines 384-386
get_class_names(self) ==
    SelectSeq([j \in 1..Len(self.class_defs) |-> self.class_defs[j].class_name],
              Truthy)

\* lines 388-390
get_method_names(self) ==
    SelectSeq([j \in 1..Len(self.method_ids) |-> self.method_ids[j].method_name],
              Truthy)

\* lines 392-394: a copy of the list
get_string_pool(self) == [j \in 1..Len(self.strings) |-> self.strings[j]]

\* ------------------------------------------------------------- DEX files
\* The files parse() is run on are written from a description: the header
\* values, the raw index fields of every table entry and the string data,
\* laid out header, string ids, type ids, prototypes, fields, methods,
\* class definitions, string data, as test_dex_editor.py writes its file
\* (line 21: the magic, the version, then the rest of the header).

LE16(n) == <<n % 256, n \div 256>>
LE32(b) == LE16(Limb(b, 1)) \o LE16(Limb(b, 2))

RECURSIVE Flatten(_)
Flatten(ss) == IF ss = <<>> THEN <<>> ELSE ss[1] \o Flatten(Tail(ss))

\* the sixteen u32 of bytes 32-111, in the order of the format
NumFields == <<"file_size", "header_size", "endian_tag", "link_size",
               "link_off", "map_off", "string_ids_size", "string_ids_off",
               "type_ids_size", "type_ids_off", "proto_ids_size",
               "proto_ids_off", "field_ids_size", "field_ids_off",
               "method_ids_size", "method_ids_off", "class_defs_size",
               "class_defs_off", "data_size", "data_off">>

HeaderBytes(img) ==
    img.hdr.magic \o img.tag \o LE32(img.hdr.checksum) \o img.hdr.signature
    \o Flatten([k \in 1..Len(NumFields) |-> LE32(img.hdr[NumFields[k]])])

TableBytes(img) ==
    Flatten([k \in 1..Len(img.sids) |-> LE32(img.sids[k])])
    \o Flatten([k \in 1..Len(img.tids) |-> LE32(img.tids[k])])
    \o Flatten([k \in 1..Len(img.pids) |->
          LE32(img.pids[k][1]) \o LE32(img.pids[k][2]) \o LE32(img.pids[k][3])])
    \o Flatten([k \in 1..Len(img.fids) |->
          LE16(Limb(img.fids[k][1], 1)) \o LE16(Limb(img.fids[k][2], 1))
          \o LE32(img.fids[k][3])])
    \o Flatten([k \in 1..Len(img.mids) |->
          LE16(Limb(img.mids[k][1], 1)) \o LE16(Limb(img.mids[k][2], 1))
          \o LE32(img.mids[k][3])])
    \o Flatten([k \in 1..Len(img.cdefs) |->
          Flatten([j \in 1..8 |-> LE32(img.cdefs[k][j])])])

\* the bytes of the file: the image cut at img.cut bytes
FileBytes(img) ==
    LET all == HeaderBytes(img) \o TableBytes(img) \o img.blob
    IN  SubSeq(all, 1, Min(img.cut, Len(all)))

\* string data: "hello"; two bytes that are U+00E9; three bytes that are not
\* UTF-8; a length of 9 with 4 bytes left; a length prefix 0x80 0x80 that
\* the end of the file cuts
Blob == <<5, 104, 101, 108, 108, 111,   2, 195, 169,   3, 255, 97, 128,
          9, 120, 121,   128, 128>>

\* where a string id may point: into the string data (by its offset
\* there), at the end of the file, past it, far past it, at a place whose
\* low 16 bits are inside the file, into the header
StrChoices == {"hello", "e_acute", "not_utf8", "long", "unterminated",
               "end", "past", "max", "wrap", "header"}

StrOff(c, dataOff) ==
    CASE c = "hello" -> Big(dataOff)
      [] c = "e_acute" -> Big(dataOff + 6)
      [] c = "not_utf8" -> Big(dataOff + 9)
      [] c = "long" -> Big(dataOff + 13)
      [] c = "unterminated" -> Big(dataOff + 16)
      [] c = "end" -> Big(dataOff + Len(Blob))
      [] c = "past" -> Big(dataOff + Len(Blob) + 5)
      [] c = "max" -> NoIndex
      [] c = "wrap" -> <<dataOff, 1>>
      [] c = "header" -> Big(3)

\* an index field: in range, just past a table of two, 65536 (low 16 bits
\* zero) and the 0xFFFFFFFF of "no index"
IdxChoices == {Big(0), Big(1), Big(2), <<0, 1>>, NoIndex}
Idx16Choices == {Big(0), Big(1), Big(2), <<65535>>}

\* the image of the tables t, its header describing the layout
Image(t) ==
    LET so == 112
        to == so + 4 * Len(t.sids)
        po == to + 4 * Len(t.tids)
        fo == po + 12 * Len(t.pids)
        mo == fo + 8 * Len(t.fids)
        co == mo + 8 * Len(t.mids)
        do == co + 32 * Len(t.cdefs)
        len == do + Len(Blob)
    IN  [tag |-> <<48, 51, 53, 0>>,
         hdr |-> [magic |-> DEX_MAGIC, version |-> <<48, 51, 53>>,
                  checksum |-> <<4660, 22136>>,
                  signature |-> [j \in 1..20 |-> j],
                  file_size |-> Big(len), header_size |-> Big(112),
                  endian_tag |-> <<22136, 4660>>,
                  link_size |-> <<>>, link_off |-> <<>>, map_off |-> <<>>,
                  string_ids_size |-> Big(Len(t.sids)),
                  string_ids_off |-> Big(so),
                  type_ids_size |-> Big(Len(t.tids)),
                  type_ids_off |-> Big(to),
                  proto_ids_size |-> Big(Len(t.pids)),
                  proto_ids_off |-> Big(po),
                  field_ids_size |-> Big(Len(t.fids)),
                  field_ids_off |-> Big(fo),
                  method_ids_size |-> Big(Len(t.mids)),
                  method_ids_off |-> Big(mo),
                  class_defs_size |-> Big(Len(t.cdefs)),
                  class_defs_off |-> Big(co),
                  data_size |-> Big(Len(Blob)), data_off |-> Big(do)],
         sids |-> [k \in 1..Len(t.sids) |-> StrOff(t.sids[k], do)],
         tids |-> t.tids, pids |-> t.pids, fids |-> t.fids,
         mids |-> t.mids, cdefs |-> t.cdefs,
         blob |-> Blob, cut |-> len]

\* a well-formed file: two strings, two types, one prototype, field, method
\* and class
BaseTables ==
    [sids |-> <<"hello", "e_acute">>,
     tids |-> <<Big(0), Big(1)>>,
     pids |-> <<<<Big(1), Big(0), <<>>>>>>,
     fids |-> <<<<Big(0), Big(1), Big(0)>>>>,
     mids |-> <<<<Big(1), Big(0), Big(1)>>>>,
     cdefs |-> <<<<Big(0), Big(1), Big(1), <<>>, Big(1), <<>>, <<>>, <<>>>>>>]

\* the sequences over S of at most n entries
RECURSIVE SeqsUpTo(_, _)
SeqsUpTo(S, n) ==
    IF n = 0 THEN {<<>>}
    ELSE LET shorter == SeqsUpTo(S, n - 1)
         IN  shorter \cup {Append(q, x) : q \in {r \in shorter : Len(r) = n - 1},
                                          x \in S}

\* the tables of the files: BaseTables with one table varied
VariedTables ==
    {[BaseTables EXCEPT !.sids = q] : q \in SeqsUpTo(StrChoices, MaxEntries)}
    \cup {[BaseTables EXCEPT !.tids = q] : q \in SeqsUpTo(IdxChoices, MaxEntries)}
    \cup {[BaseTables EXCEPT !.pids = <<<<a, b, <<>>>>>> \o @] :
            a \in IdxChoices, b \in IdxChoices}
    \cup {[BaseTables EXCEPT !.fids = <<<<a, b, c>>>> \o @] :
            a \in Idx16Choices, b \in Idx16Choices, c \in IdxChoices}
    \cup {[BaseTables EXCEPT !.mids = <<<<a, b, c>>>> \o @] :
            a \in Idx16Choices, b \in Idx16Choices, c \in IdxChoices}
    \cup {[BaseTables EXCEPT
             !.cdefs = <<<<a, Big(1), b, <<>>, c, <<>>, <<>>, <<>>>>>> \o @] :
            a \in IdxChoices, b \in IdxChoices, c \in IdxChoices}

BaseImage == Image(BaseTables)
BaseLen == BaseImage.cut

OffField(stage) == stage \o "_off"
SizeField(stage) == stage \o "_size"

\* files whose header does not describe their layout: one table offset at
\* the last byte, past 2^16 or at 0xFFFFFFFF, or one table size one more
\* than the entries written, or 0xFFFFFFFF
MisdescribedImages ==
    {[BaseImage EXCEPT !.hdr[OffField(Stages[k])] = off] :
        k \in 1..Len(Stages),
        off \in {Big(BaseLen - 1), <<BaseLen - 1, 1>>, NoIndex}}
    \cup UNION {{[BaseImage EXCEPT !.hdr[SizeField(Stages[k])] = size] :
                   size \in {Add(BaseImage.hdr[SizeField(Stages[k])], Big(1)),
                             NoIndex}} :
                k \in 1..Len(Stages)}

\* the files with all their bytes and the base file cut anywhere from the
\* end of the header on
TableImages ==
    {Image(t) : t \in VariedTables}
    \cup MisdescribedImages
    \cup {[BaseImage EXCEPT !.cut = c] : c \in 112..BaseLen}

\* headers without tables: every u32 of the header 0, every u32 distinct
\* with four distinct bytes, or every u32 0xFFFFFFFF
HeaderValues(kind) ==
    [f \in {NumFields[k] : k \in 1..Len(NumFields)} \cup {"checksum"} |->
        IF kind = "zero" THEN <<>>
        ELSE IF kind = "max" THEN NoIndex
        ELSE LET k == CHOOSE j \in 0..Len(NumFields) :
                        IF j = 0 THEN f = "checksum" ELSE NumFields[j] = f
             IN  <<256 * (4 * k + 2) + 4 * k + 1, 256 * (4 * k + 4) + 4 * k + 3>>]

Tags == DEX_VERSIONS \cup {<<48, 57, 57, 0>>, <<48, 51, 53, 1>>}
Magics == {DEX_MAGIC, <<100, 101, 121, 10>>, <<100, 101, 120, 0>>}

HeaderImage(magic, tag, kind, extra, cut) ==
    LET v == HeaderValues(kind)
    IN  [tag |-> tag,
         hdr |-> [magic |-> magic, version |-> Norm(tag),
                  checksum |-> v.checksum,
                  signature |-> [j \in 1..20 |-> IF kind = "zero" THEN 0 ELSE 200 + j],
                  file_size |-> v.file_size, header_size |-> v.header_size,
                  endian_tag |-> v.endian_tag, link_size |-> v.link_size,
                  link_off |-> v.link_off, map_off |-> v.map_off,
                  string_ids_size |-> v.string_ids_size,
                  string_ids_off |-> v.string_ids_off,
                  type_ids_size |-> v.type_ids_size,
                  type_ids_off |-> v.type_ids_off,
                  proto_ids_size |-> v.proto_ids_size,
                  proto_ids_off |-> v.proto_ids_off,
                  field_ids_size |-> v.field_ids_size,
                  field_ids_off |-> v.field_ids_off,
                  method_ids_size |-> v.method_ids_size,
                  method_ids_off |-> v.method_ids_off,
                  class_defs_size |-> v.class_defs_size,
                  class_defs_off |-> v.class_defs_off,
                  data_size |-> v.data_size, data_off |-> v.data_off],
         sids |-> <<>>, tids |-> <<>>, pids |-> <<>>, fids |-> <<>>,
         mids |-> <<>>, cdefs |-> <<>>,
         blob |-> [j \in 1..extra |-> 0], cut |-> cut]

\* the file of C1 and of test_dex_editor.py: magic, '035\0' and zeros
MinimalImage(extra) ==
    HeaderImage(DEX_MAGIC, <<48, 51, 53, 0>>, "zero", extra, 112 + extra)

HeaderCuts == {0, 3, 4, 7, 8, 9, 91, 92, 93, 111, 112}

HeaderImages ==
    {HeaderImage(m, t, kind, 0, c) :
        m \in Magics, t \in Tags, kind \in {"zero", "distinct", "max"},
        c \in HeaderCuts}
    \cup {MinimalImage(2)}

\* every file parse() is run on: also the base file cut inside its header
Images ==
    HeaderImages \cup TableImages
    \cup {[BaseImage EXCEPT !.cut = c] : c \in 0..111}

\* ------------------------------------------------------------------- state

VARIABLES
    file,       \* the file at file_path: whether it can be read, its bytes
    img,        \* the description the file was written from
    self,       \* the DexParser
    pc,         \* where the call in progress stands
    result,     \* what the last parse() returned: "none", "True", "False"
    failure,    \* why it returned False, or the exception a stage raised
    calls,      \* the calls of parse() made on self
    first       \* header, tables and summary as the first parse() left them

vars == <<file, img, self, pc, result, failure, calls, first>>

\* what a caller reads of the parser after parse()
Output(p) == [header |-> p.header, strings |-> p.strings,
              string_ids |-> p.string_ids, type_ids |-> p.type_ids,
              proto_ids |-> p.proto_ids, field_ids |-> p.field_ids,
              method_ids |-> p.method_ids, class_defs |-> p.class_defs,
              summary |-> get_summary(p)]

NoOutput == [none |-> TRUE]

\* ---------------------------------------------------------------- parse()

Init ==
    /\ img \in Images
    /\ file \in {[exists |-> TRUE, bytes |-> FileBytes(img)]}
                \cup {[exists |-> FALSE, bytes |-> <<>>] : x \in {img} \cap {MinimalImage(0)}}
    /\ self = NewParser
    /\ pc = "idle"
    /\ result = "none"
    /\ failure = "none"
    /\ calls = 0
    /\ first = NoOutput

\* parse() returns r; why is the check that failed or the exception caught
Return(p, r, why) ==
    /\ self' = p
    /\ pc' = "idle"
    /\ result' = r
    /\ failure' = why
    /\ first' = IF calls = 1 THEN Output(p) ELSE first
    /\ UNCHANGED <<file, img, calls>>

\* lines 123-125: the call, open() and read(); open() raises on a file that
\* is not there
Open ==
    /\ pc = "idle"
    /\ calls < MaxParses
    /\ calls' = calls + 1
    /\ IF file.exists
       THEN /\ self' = [self EXCEPT !.data = file.bytes]
            /\ pc' = "validate"
            /\ result' = "none"
            /\ failure' = "none"
            /\ first' = first
       ELSE /\ self' = self
            /\ pc' = "idle"
            /\ result' = "False"
            /\ failure' = "FileNotFoundError"
            /\ first' = IF calls = 0 THEN Output(self) ELSE first
    /\ UNCHANGED <<file, img>>

\* lines 127-128
ValidateMagic ==
    /\ pc = "validate"
    /\ IF _validate_magic(self)
       THEN pc' = "header" /\ UNCHANGED <<file, img, self, result, failure, calls, first>>
       ELSE Return(self, "False", "magic")

\* lines 131-142, after a _parse_header that did not raise left h
TablesThenReturn(t) ==
    IF t.raised # "none" THEN Return(t.self, "False", t.raised)
    ELSE Return(t.self, "True", "none")

\* parse() without its except: an exception of _parse_header leaves
\* parse() without a return value
HeaderThenTables_Uncaught(h) ==
    IF h.raised # "none" THEN Return(h.self, "raised", h.raised)
    ELSE TablesThenReturn(ParseTables(h.self, 1))

HeaderThenTables(h) ==
    IF h.raised # "none" THEN Return(h.self, "False", h.raised)
    ELSE TablesThenReturn(ParseTables(h.self, 1))

\* lines 130-142: the header, the six tables, return True; any exception is
\* caught and parse() returns False with what was built so far
ParseBody ==
    /\ pc = "header"
    /\ HeaderThenTables(_parse_header(self))

Next == Open \/ ValidateMagic \/ ParseBody

Spec == Init /\ [][Next]_vars

\* a call of parse() that has started goes on: nothing in it waits
SpecFair == Spec /\ WF_vars(ValidateMagic \/ ParseBody)

\* ------------------------------------------------------- the table stages
\* parse() never reaches its table stages (ParseBody: _parse_header raises
\* on every file that passes the magic check), so the six methods are also
\* run as a unit test runs them: on a parser whose data is the file and
\* whose header is a DexHeader made from the values the file was written
\* from, in the order of lines 131-136, an exception ending the run.

InitTables ==
    /\ img \in TableImages
    /\ file = [exists |-> TRUE, bytes |-> FileBytes(img)]
    /\ self = [NewParser EXCEPT !.data = file.bytes, !.header = img.hdr]
    /\ pc = "string_ids"
    /\ result = "none"
    /\ failure = "none"
    /\ calls = 0
    /\ first = NoOutput

\* after the method of Stages[k] left r: on to the next stage; a stage that
\* raises ends the run at that stage, failure naming the exception
StageDone(k, r) ==
    /\ self' = r.self
    /\ failure' = r.raised
    /\ pc' = IF r.raised # "none" THEN pc
             ELSE IF k = Len(Stages) THEN "done"
             ELSE Stages[k + 1]
    /\ UNCHANGED <<file, img, result, calls, first>>

\* the call of the method of Stages[k]
RunStage(k) ==
    /\ failure = "none"
    /\ StageDone(k, ParseTable(Stages[k], self))

ParseStringIds == pc = "string_ids" /\ RunStage(1)
ParseTypeIds == pc = "type_ids" /\ RunStage(2)
ParseProtoIds == pc = "proto_ids" /\ RunStage(3)
ParseFieldIds == pc = "field_ids" /\ RunStage(4)
ParseMethodIds == pc = "method_ids" /\ RunStage(5)
ParseClassDefs == pc = "class_defs" /\ RunStage(6)

NextTables ==
    \/ ParseStringIds
    \/ ParseTypeIds
    \/ ParseProtoIds
    \/ ParseFieldIds
    \/ ParseMethodIds
    \/ ParseClassDefs

SpecTables == InitTables /\ [][NextTables]_vars

\* ------------------------------------------------------------ properties

\* parse() has returned
Returned == pc = "idle" /\ calls >= 1

\* header and tables of a parser as __init__ leaves them
Unpopulated(p) ==
    /\ p.header = None
    /\ p.strings = <<>> /\ p.string_ids = <<>> /\ p.type_ids = <<>>
    /\ p.proto_ids = <<>> /\ p.field_ids = <<>> /\ p.method_ids = <<>>
    /\ p.class_defs = <<>>

\* the first 4 bytes are the DEX magic; bytes 4-7 are a supported version
HasMagic(bytes) == Len(bytes) >= 4 /\ SubSeq(bytes, 1, 4) = <<100, 101, 120, 10>>
HasVersion(bytes) ==
    /\ Len(bytes) >= 8
    /\ bytes[5] = 48 /\ bytes[6] = 51 /\ bytes[7] \in {53, 55, 56, 57}
    /\ bytes[8] = 0

\* C1: parse() of the file made of 'dex\n', '035\0' and 104 zero bytes
\* returns True and get_summary() then reports the six counts as 0.
C1_MinimalParses ==
    (Returned /\ file.exists /\ img = MinimalImage(0)) =>
        /\ result = "True"
        /\ self.header # None
        /\ LET sm == get_summary(self)
           IN  /\ sm.strings_count = 0 /\ sm.types_count = 0
               /\ sm.prototypes_count = 0 /\ sm.fields_count = 0
               /\ sm.methods_count = 0 /\ sm.classes_count = 0

HeaderNames == {NumFields[k] : k \in 1..Len(NumFields)}
                 \cup {"checksum", "signature"}

\* C2: on every file of at least 112 bytes that starts with the magic and a
\* supported version, _parse_header succeeds and every attribute of the
\* header is the little-endian value written at its place in bytes 8-111.
C2_HeaderRoundTrip ==
    (Returned /\ file.exists /\ Len(file.bytes) >= 112
       /\ HasMagic(file.bytes) /\ HasVersion(file.bytes)) =>
        /\ self.header # None
        /\ \A f \in HeaderNames : self.header[f] = img.hdr[f]

\* C3: on every file whose first 4 bytes are not the magic, or whose bytes
\* 4-7 are not a supported version, parse() returns False from the magic
\* check and leaves the header unset and every table empty.
C3_BadMagicFails ==
    (Returned /\ file.exists
       /\ ~(HasMagic(file.bytes) /\ HasVersion(file.bytes))) =>
        /\ result = "False"
        /\ failure = "magic"
        /\ Unpopulated(self)

C3_Witness ==
    /\ Returned /\ file.exists
    /\ Len(file.bytes) >= 112
    /\ HasMagic(file.bytes) /\ ~HasVersion(file.bytes)
    /\ result = "False"

\* C4 as claimed: on every file shorter than 112 bytes, whatever its first
\* bytes, parse() fails with the too-short failure and populates no table.
C4_ShortFailsTooShort ==
    (Returned /\ file.exists /\ Len(file.bytes) < 112) =>
        /\ result = "False"
        /\ failure = "ValueError"
        /\ Unpopulated(self)

\* C4 as amended: on every file shorter than 112 bytes parse() fails and
\* populates no table; the failure is the too-short one exactly when the
\* file starts with the magic and a supported version, and the failure of
\* the magic check otherwise.
C4_ShortFails ==
    (Returned /\ file.exists /\ Len(file.bytes) < 112) =>
        /\ result = "False"
        /\ Unpopulated(self)
        /\ IF HasMagic(file.bytes) /\ HasVersion(file.bytes)
           THEN failure = "ValueError"
           ELSE failure = "magic"

C4_Witness ==
    /\ Returned /\ file.exists
    /\ Len(file.bytes) < 112 /\ Len(file.bytes) > 92
    /\ HasMagic(file.bytes) /\ HasVersion(file.bytes)
    /\ failure = "ValueError"

StageIndex(stage) == CHOOSE k \in 1..Len(Stages) : Stages[k] = stage

\* the method of stage k has been called and has returned or raised
Ran(k) ==
    \/ pc = "done"
    \/ pc # "done" /\ StageIndex(pc) > k
    \/ pc # "done" /\ StageIndex(pc) = k /\ failure # "none"

\* the method of stage k raised
RaisedIn(k) == pc # "done" /\ StageIndex(pc) = k /\ failure # "none"

\* an index below n, for n < 65536, and the entry it names
InRange(idx, n) == \E m \in 0..(n - 1) : idx = IF m = 0 THEN <<>> ELSE <<m>>
Nth(seq, idx) == seq[(IF idx = <<>> THEN 0 ELSE idx[1]) + 1]

\* every record of the table of a stage lies inside the buffer:
\* off + size * stride <= len(data)
TableInside(p, stage) ==
    \/ SizeOf(p.header, stage) = <<>>
    \/ /\ InRange(OffOf(p.header, stage), Len(p.data) + 1)
       /\ InRange(SizeOf(p.header, stage), Len(p.data) + 1)
       /\ \E o \in 0..Len(p.data), n \in 1..Len(p.data) :
            /\ OffOf(p.header, stage) = (IF o = 0 THEN <<>> ELSE <<o>>)
            /\ SizeOf(p.header, stage) = <<n>>
            /\ o + n * Stride(stage) <= Len(p.data)

\* a method of stage k whose table is inside the buffer raises nothing and
\* appends an entry for every entry of the table
Completes(k, table) ==
    (Ran(k) /\ TableInside(self, Stages[k])) =>
        /\ ~RaisedIn(k)
        /\ <<Len(table)>> = SizeOf(self.header, Stages[k])
           \/ (table = <<>> /\ SizeOf(self.header, Stages[k]) = <<>>)

\* C6: when a record of some table lies partly or wholly outside the
\* buffer no stage fails: the entry is left empty and the later tables are
\* resolved.
C6_OutsideRecordRecovered ==
    (\E k \in 1..Len(Stages) : ~TableInside(self, Stages[k])) =>
        failure = "none"

\* C7: a class definition whose superclass_idx is 0xFFFFFFFF has an empty
\* superclass_name and one whose source_file_idx is 0xFFFFFFFF an empty
\* source_file, whatever the sizes of the type and string tables.
C7_SentinelEmpty ==
    \A j \in 1..Len(self.class_defs) :
        /\ self.class_defs[j].superclass_idx = <<65535, 65535>>
             => self.class_defs[j].superclass_name = <<>>
        /\ self.class_defs[j].source_file_idx = <<65535, 65535>>
             => self.class_defs[j].source_file = <<>>

C7_Witness ==
    /\ pc = "done"
    /\ Len(self.type_ids) = 2 /\ Len(self.strings) = 2
    /\ \E j \in 1..Len(self.class_defs) :
         /\ self.class_defs[j].superclass_idx = <<65535, 65535>>
         /\ self.class_defs[j].source_file_idx = <<65535, 65535>>
         /\ self.class_defs[j].class_name # <<>>
         /\ self.class_defs[j].superclass_name = <<>>

\* the string or the descriptor an index names, '' for an index out of range
StringOf(idx) ==
    IF InRange(idx, Len(self.strings)) THEN Nth(self.strings, idx) ELSE <<>>
DescriptorOf(idx) ==
    IF InRange(idx, Len(self.type_ids))
    THEN Nth(self.type_ids, idx).descriptor ELSE <<>>
ShortyOf(idx) ==
    IF InRange(idx, Len(self.proto_ids))
    THEN Nth(self.proto_ids, idx).shorty ELSE <<>>

\* C8: a type id whose descriptor_idx is at or past the number of strings
\* has an empty descriptor, one whose descriptor_idx is in range has
\* strings[descriptor_idx]; _parse_type_ids raises nothing for either and
\* resolves every type id of its table.
C8_TypeDescriptors ==
    /\ \A j \in 1..Len(self.type_ids) :
         self.type_ids[j].descriptor = StringOf(self.type_ids[j].descriptor_idx)
    /\ Completes(2, self.type_ids)

C8_Witness ==
    /\ Ran(2) /\ ~RaisedIn(2)
    /\ \E j \in 1..Len(self.type_ids), k \in 1..Len(self.type_ids) :
         /\ j < k
         /\ ~InRange(self.type_ids[j].descriptor_idx, Len(self.strings))
         /\ self.type_ids[j].descriptor = <<>>
         /\ InRange(self.type_ids[k].descriptor_idx, Len(self.strings))
         /\ self.type_ids[k].descriptor # <<>>

\* C9: in the prototype, field and method tables an index at or past the
\* size of the table it indexes leaves its own resolved field empty and
\* fails nothing, and every index in range is resolved: shorty and names
\* from strings, return type, class and field type from the type
\* descriptors, a method's prototype from the shorty of its prototype.
C9_PartialResolution ==
    /\ \A j \in 1..Len(self.proto_ids) :
         /\ self.proto_ids[j].shorty = StringOf(self.proto_ids[j].shorty_idx)
         /\ self.proto_ids[j].return_type
              = DescriptorOf(self.proto_ids[j].return_type_idx)
    /\ \A j \in 1..Len(self.field_ids) :
         /\ self.field_ids[j].class_name = DescriptorOf(self.field_ids[j].class_idx)
         /\ self.field_ids[j].type_name = DescriptorOf(self.field_ids[j].type_idx)
         /\ self.field_ids[j].field_name = StringOf(self.field_ids[j].name_idx)
    /\ \A j \in 1..Len(self.method_ids) :
         /\ self.method_ids[j].class_name = DescriptorOf(self.method_ids[j].class_idx)
         /\ self.method_ids[j].prototype = ShortyOf(self.method_ids[j].proto_idx)
         /\ self.method_ids[j].method_name = StringOf(self.method_ids[j].name_idx)
    /\ Completes(3, self.proto_ids)
    /\ Completes(4, self.field_ids)
    /\ Completes(5, self.method_ids)

C9_Witness ==
    /\ pc = "done"
    /\ \E j \in 1..Len(self.field_ids) :
         /\ ~InRange(self.field_ids[j].class_idx, Len(self.type_ids))
         /\ self.field_ids[j].class_name = <<>>
         /\ self.field_ids[j].type_name # <<>>
         /\ self.field_ids[j].field_name # <<>>

\* the string data is whole in the buffer, at the place the header says
DataWhole ==
    /\ InRange(img.hdr.data_off, Len(self.data))
    /\ Len(self.data) = img.hdr.data_off[1] + Len(Blob)
    /\ SubSeq(self.data, img.hdr.data_off[1] + 1, Len(self.data)) = Blob

\* C10: resolving a string raises nothing: a string id whose
\* string_data_off is outside the buffer or whose length prefix is not
\* terminated gets '', one whose bytes are not UTF-8 gets a string with
\* replacement characters, and the remaining string ids and the later
\* tables are resolved (a stage raises only on a record outside the buffer).
C10_StringsNeverRaise ==
    /\ Completes(1, self.string_ids)
    /\ Len(self.strings) = Len(self.string_ids)
    /\ \A j \in 1..Len(self.string_ids) :
         /\ self.strings[j] = self.string_ids[j].string_data
         /\ ~InRange(self.string_ids[j].string_data_off, Len(self.data))
              => self.string_ids[j].string_data = <<>>
         /\ (DataWhole /\ self.string_ids[j].string_data_off
                            = <<img.hdr.data_off[1] + 16>>)
              => self.string_ids[j].string_data = <<>>
         /\ (DataWhole /\ self.string_ids[j].string_data_off
                            = <<img.hdr.data_off[1] + 9>>)
              => self.string_ids[j].string_data = <<65533, 97, 65533>>
    /\ failure # "none" => ~TableInside(self, pc)

C10_Witness ==
    /\ pc = "done" /\ DataWhole
    /\ Len(self.string_ids) = 2
    /\ self.string_ids[1].string_data_off = <<65535, 65535>>
    /\ self.string_ids[2].string_data = <<65533, 97, 65533>>
    /\ Len(self.type_ids) = 2 /\ Len(self.class_defs) = 1

\* ------------------------------------------------------- _read_uleb128
\* _read_uleb128 called on a parser whose data holds the ULEB128 encoding
\* of a 32-bit value between other bytes

\* the limbs of the values: 0 .. 2^32 - 1, with the values where the
\* encoding grows by a byte
LimbChoices == {0, 1, 127, 128, 16383, 16384, 65535}
U32Choices == {Norm(<<lo, hi>>) : lo \in LimbChoices, hi \in LimbChoices}

\* the bytes around an encoding
AroundChoices == SeqsUpTo({0, 128, 255}, MaxAround)

\* v >> 7 on limbs
Shr7(v) == Norm(<<(Limb(v, 1) \div 128) + (Limb(v, 2) % 128) * 512,
                  Limb(v, 2) \div 128>>)

\* the reference ULEB128 encoding of v: seven bits a byte, least significant
\* first, the high bit set on every byte but the last
RECURSIVE Uleb128Encode(_)
Uleb128Encode(v) ==
    IF Shr7(v) = <<>> THEN <<Limb(v, 1) % 128>>
    ELSE <<128 + (Limb(v, 1) % 128)>> \o Uleb128Encode(Shr7(v))

InitUleb ==
    /\ img \in {[v |-> v, before |-> b, after |-> a] :
                  v \in U32Choices, b \in AroundChoices, a \in AroundChoices}
    /\ file = [exists |-> TRUE,
               bytes |-> img.before \o Uleb128Encode(img.v) \o img.after]
    /\ self = [NewParser EXCEPT !.data = file.bytes]
    /\ pc = "uleb128"
    /\ result = "none"
    /\ failure = "none"
    /\ calls = 0
    /\ first = NoOutput

\* self._read_uleb128(offset) at the offset of the encoding
ReadUleb128 ==
    /\ pc = "uleb128"
    /\ result' = _read_uleb128(self.data, Big(Len(img.before)))
    /\ pc' = "read"
    /\ UNCHANGED <<file, img, self, failure, calls, first>>

NextUleb == ReadUleb128

SpecUleb == InitUleb /\ [][NextUleb]_vars

\* C11: _read_uleb128 at the offset of the reference ULEB128 encoding of a
\* 32-bit value v returns v and the number of bytes of the encoding, 1 to 5,
\* whatever bytes come before and after the encoding.
C11_Uleb128RoundTrip ==
    pc = "read" =>
        /\ result.value = img.v
        /\ result.bytes_read = Len(Uleb128Encode(img.v))
        /\ result.bytes_read \in 1..5

\* 2^32 - 1 read back from its five bytes, a continuation byte after them
C11_Witness ==
    /\ pc = "read"
    /\ img.v = <<65535, 65535>>
    /\ Uleb128Encode(img.v) = <<255, 255, 255, 255, 15>>
    /\ img.after = <<128, 255>>
    /\ img.before # <<>>
    /\ result = [value |-> <<65535, 65535>>, bytes_read |-> 5]

\* ---------------------------------------------- properties of the strings

\* at byte off (from 0) the buffer holds the ULEB128 encoding of n and then
\* n bytes below 128, all of them inside the buffer
AsciiRun(data, off, n) ==
    /\ off + Len(Uleb128Encode(Big(n))) + n <= Len(data)
    /\ SubSeq(data, off + 1, off + Len(Uleb128Encode(Big(n))))
         = Uleb128Encode(Big(n))
    /\ \A k \in 1..n : data[off + Len(Uleb128Encode(Big(n))) + k] < 128

\* the n bytes after the encoding of n at byte off
RunBytes(data, off, n) ==
    SubSeq(data, off + Len(Uleb128Encode(Big(n))) + 1,
                 off + Len(Uleb128Encode(Big(n))) + n)

\* an offset below 65536 as a natural
OffNat(off) == IF off = <<>> THEN 0 ELSE off[1]

\* C12: a string id whose string_data_off points inside the buffer at a
\* ULEB128 length n followed by n ASCII bytes, all inside the buffer, is
\* resolved to exactly those n bytes; a one-entry pool pointing at length 5
\* and 'hello' has strings[0] = 'hello'.
C12_AsciiStrings ==
    \A j \in 1..Len(self.string_ids) :
        InRange(self.string_ids[j].string_data_off, Len(self.data)) =>
            \A n \in 0..Len(self.data) :
                AsciiRun(self.data, OffNat(self.string_ids[j].string_data_off), n)
                  => /\ self.string_ids[j].string_data
                          = RunBytes(self.data,
                                     OffNat(self.string_ids[j].string_data_off), n)
                     /\ self.strings[j] = self.string_ids[j].string_data

C12_Witness ==
    /\ pc = "done"
    /\ Len(img.sids) = 1
    /\ AsciiRun(self.data, OffNat(self.string_ids[1].string_data_off), 5)
    /\ Len(self.string_ids) = 1
    /\ self.strings = <<<<104, 101, 108, 108, 111>>>>

\* ------------------------------------------- _parse_string_ids, by entry
\* _parse_string_ids on a fresh parser whose data is the file and whose
\* header is set, one action an iteration of its loop; pc is the line the
\* method stands at, with i and offset of the loop

InitStrings ==
    /\ img \in TableImages
    /\ file = [exists |-> TRUE, bytes |-> FileBytes(img)]
    /\ self = [NewParser EXCEPT !.data = file.bytes, !.header = img.hdr]
    /\ pc = [line |-> "guard", i |-> 0, offset |-> <<>>]
    /\ result = "none"
    /\ failure = "none"
    /\ calls = 0
    /\ first = NoOutput

\* lines 195-198: return without a header or with no string ids, else the
\* offset of the table
EnterStringIds ==
    /\ pc.line = "guard"
    /\ pc' = IF self.header = None \/ self.header.string_ids_size = <<>>
             THEN [pc EXCEPT !.line = "returned"]
             ELSE [line |-> "loop", i |-> 0, offset |-> self.header.string_ids_off]
    /\ UNCHANGED <<file, img, self, result, failure, calls, first>>

\* after an iteration that left r
StringIdsIterated(r) ==
    /\ self' = r.self
    /\ failure' = r.raised
    /\ pc' = IF r.raised # "none" THEN [pc EXCEPT !.line = "raised"]
             ELSE [pc EXCEPT !.i = @ + 1,
                             !.offset = Add(@, Big(Stride("string_ids")))]
    /\ UNCHANGED <<file, img, result, calls, first>>

\* lines 200-209: one iteration, i below string_ids_size
IterateStringIds ==
    /\ pc.line = "loop"
    /\ ~Lt(self.header.string_ids_size, pc.i + 1)
    /\ StringIdsIterated(StringIdStep(self, pc.offset))

\* line 199: range(string_ids_size) is exhausted
LeaveStringIds ==
    /\ pc.line = "loop"
    /\ Lt(self.header.string_ids_size, pc.i + 1)
    /\ pc' = [pc EXCEPT !.line = "returned"]
    /\ UNCHANGED <<file, img, self, result, failure, calls, first>>

NextStrings == EnterStringIds \/ IterateStringIds \/ LeaveStringIds

SpecStrings == InitStrings /\ [][NextStrings]_vars

\* string_data_off of entry i (from 1) of the string-id table, read from
\* the bytes of the buffer
EntryOff(i) ==
    Norm(<<self.data[OffNat(self.header.string_ids_off) + 4 * i - 3]
             + 256 * self.data[OffNat(self.header.string_ids_off) + 4 * i - 2],
           self.data[OffNat(self.header.string_ids_off) + 4 * i - 1]
             + 256 * self.data[OffNat(self.header.string_ids_off) + 4 * i]>>)

\* C13: at every iteration of _parse_string_ids on a fresh parser and after
\* it, strings and string_ids have the same length, strings[i] is
\* string_ids[i].string_data, and that is the string resolved from entry i
\* of the string-id table.
C13_PoolInOrder ==
    /\ Len(self.strings) = Len(self.string_ids)
    /\ pc.line = "loop" => Len(self.strings) = pc.i
    /\ \A i \in 1..Len(self.string_ids) :
         /\ self.strings[i] = self.string_ids[i].string_data
         /\ self.string_ids[i].string_data_off = EntryOff(i)
         /\ self.string_ids[i].string_data
              = _read_string_data(self.data, EntryOff(i))

\* between two iterations, the first of two strings resolved
C13_Witness ==
    /\ pc.line = "loop" /\ pc.i = 1
    /\ self.header.string_ids_size = <<2>>
    /\ Len(self.string_ids) = 1
    /\ self.strings[1] = <<>>
    /\ img.sids[2] # img.sids[1]

\* the method stepped by entry ends as the method run whole
StringsSteppedAsWhole ==
    pc.line \in {"returned", "raised"} =>
        [self |-> self, raised |-> failure]
          = ParseTable("string_ids",
                       [NewParser EXCEPT !.data = file.bytes, !.header = img.hdr])

\* ------------------------------------------------ properties of parse()

\* C14: parse() lets no exception reach its caller: whether the file is
\* missing, empty, cut short or corrupt, every call runs to its end and
\* returns one boolean, False with whatever exception was raised.
C14_AlwaysReturns ==
    /\ [](/\ result \in {"none", "True", "False"}
          /\ Returned => result \in {"True", "False"}
          /\ (Returned /\ failure # "none") => result = "False")
    /\ [](pc # "idle" => <>(pc = "idle" /\ result \in {"True", "False"}))

\* a second call has returned False on the struct.error of the header
C14_Witness ==
    /\ Returned /\ calls = 2
    /\ file.exists /\ Len(file.bytes) > 112
    /\ failure = "struct.error"
    /\ result = "False"

\* ------------------------------------------------------------ the getters
\* get_summary, get_class_names, get_method_names and get_string_pool called
\* at any time on a parser: a fresh one, one that parse() has read the file
\* into without setting a header, and one whose header is set and whose
\* table stages run, to their end or to the stage that raises.  result is
\* the last call of a getter and what it returned; no statement of a getter
\* can raise.

InitGetters ==
    /\ img \in TableImages
    /\ file = [exists |-> TRUE, bytes |-> FileBytes(img)]
    /\ self \in {NewParser,
                 [NewParser EXCEPT !.data = file.bytes],
                 [NewParser EXCEPT !.data = file.bytes, !.header = img.hdr]}
    /\ pc = "string_ids"
    /\ result = [call |-> "none", raised |-> "none", value |-> <<>>]
    /\ failure = "none"
    /\ calls = 0
    /\ first = NoOutput

\* a getter returned value
Got(call, value) ==
    /\ result' = [call |-> call, raised |-> "none", value |-> value]
    /\ UNCHANGED <<file, img, self, pc, failure, calls, first>>

GetSummary == Got("get_summary", get_summary(self))
GetClassNames == Got("get_class_names", get_class_names(self))
GetMethodNames == Got("get_method_names", get_method_names(self))
GetStringPool == Got("get_string_pool", get_string_pool(self))

NextGetters ==
    \/ NextTables
    \/ GetSummary
    \/ GetClassNames
    \/ GetMethodNames
    \/ GetStringPool

SpecGetters == InitGetters /\ [][NextGetters]_vars

\* a step that is the call of a getter: one that runs no stage (a stage
\* moves pc or sets failure)
GetterStep == pc' = pc /\ failure' = failure

\* C15: the four getters are pure and never fail: before any parse, after
\* a parse that failed and after the table stages have run, each returns a
\* value without raising and leaves data, header and the six tables as they
\* were; get_summary is the empty dictionary without a header and with one
\* its six counts are the lengths of the tables.
C15_GettersPure ==
    [][GetterStep =>
         /\ self' = self
         /\ result'.raised = "none"
         /\ result'.call = "get_summary" =>
              IF self.header = [none |-> TRUE]
              THEN result'.value = [empty |-> TRUE]
              ELSE /\ result'.value.strings_count = Len(self.string_ids)
                   /\ result'.value.strings_count = Len(self.strings)
                   /\ result'.value.types_count = Len(self.type_ids)
                   /\ result'.value.prototypes_count = Len(self.proto_ids)
                   /\ result'.value.fields_count = Len(self.field_ids)
                   /\ result'.value.methods_count = Len(self.method_ids)
                   /\ result'.value.classes_count = Len(self.class_defs)
         /\ result'.call = "get_string_pool" => result'.value = self.strings
         /\ result'.call \in {"get_class_names", "get_method_names"} =>
              \A k \in 1..Len(result'.value) : result'.value[k] # <<>>
    ]_vars

\* get_summary after the six stages, the tables of different lengths
C15_Witness ==
    /\ pc = "done"
    /\ self.header # [none |-> TRUE]
    /\ result.call = "get_summary"
    /\ result.value.strings_count = 1
    /\ result.value.types_count = 2
    /\ result.value.classes_count = 1

\* --------------------------------------------------- test_dex_parser
\* test_dex_editor.py lines 20-33: a file is written, a DexParser is
\* constructed on its path and _validate_magic() is called at once; parse()
\* is not called, so data is the b'' of __init__

InitTest == Init

\* parser._validate_magic() of line 30
ValidateMagicAfterInit ==
    /\ pc = "idle"
    /\ result' = IF _validate_magic(self) THEN "True" ELSE "False"
    /\ pc' = "tested"
    /\ UNCHANGED <<file, img, self, failure, calls, first>>

NextTest == ValidateMagicAfterInit

SpecTest == InitTest /\ [][NextTest]_vars

\* C16: for a DexParser constructed on a file whose first 8 bytes are the
\* DEX magic and a supported version, _validate_magic() called right after
\* construction, parse() not called, returns True.
C16_MagicAfterConstruction ==
    (pc = "tested" /\ file.exists
       /\ HasMagic(file.bytes) /\ HasVersion(file.bytes)) =>
        result = "True"

\* ------------------------------------------------------------ two parsers
\* two DexParser instances, each on its own file, each running parse()
\* once; the steps of the two calls (open and read, the magic check, the
\* header and the tables) interleave in every order.  Every variable is a
\* pair, one component an instance.

\* parse() on a fresh parser as one function of the file
TablesResult(t) ==
    [self |-> t.self,
     result |-> IF t.raised # "none" THEN "False" ELSE "True",
     failure |-> t.raised]

BodyFrom(h) ==
    IF h.raised # "none"
    THEN [self |-> h.self, result |-> "False", failure |-> h.raised]
    ELSE TablesResult(ParseTables(h.self, 1))

\* lines 130-142 on the parser p
BodyResult(p) == BodyFrom(_parse_header(p))

\* lines 127-142 on the parser p, its data read
ReadResult(p) ==
    IF ~_validate_magic(p)
    THEN [self |-> p, result |-> "False", failure |-> "magic"]
    ELSE BodyResult(p)

ParseAlone(f) ==
    IF ~f.exists
    THEN [self |-> NewParser, result |-> "False",
          failure |-> "FileNotFoundError"]
    ELSE ReadResult([NewParser EXCEPT !.data = f.bytes])

\* the files of the two parsers
PairImages ==
    {MinimalImage(0), MinimalImage(2), BaseImage,
     [BaseImage EXCEPT !.cut = 0], [BaseImage EXCEPT !.cut = 50],
     [BaseImage EXCEPT !.cut = 150],
     HeaderImage(<<100, 101, 121, 10>>, <<48, 51, 53, 0>>, "distinct", 0, 112),
     HeaderImage(DEX_MAGIC, <<48, 57, 57, 0>>, "distinct", 0, 112),
     HeaderImage(DEX_MAGIC, <<48, 51, 55, 0>>, "max", 0, 112),
     HeaderImage(DEX_MAGIC, <<48, 51, 56, 0>>, "distinct", 0, 8)}

PairFiles ==
    {[exists |-> TRUE, bytes |-> FileBytes(i)] : i \in PairImages}
    \cup {[exists |-> FALSE, bytes |-> <<>>]}

InitTwo ==
    /\ file \in {f \in PairFiles \X PairFiles : f[1] # f[2]}
    /\ img = <<"first file", "second file">>
    /\ self = <<NewParser, NewParser>>
    /\ pc = <<"idle", "idle">>
    /\ result = <<"none", "none">>
    /\ failure = <<"none", "none">>
    /\ calls = <<0, 0>>
    /\ first = NoOutput

\* the data attribute of instance k set to the bytes read, as a class
\* attribute all instances share would be
ReadInto_Shared(parsers, k, bytes) ==
    [j \in DOMAIN parsers |-> [parsers[j] EXCEPT !.data = bytes]]

\* line 125: self.data = f.read() in instance k
ReadInto(parsers, k, bytes) ==
    [parsers EXCEPT ![k].data = bytes]

\* parse() of instance k returns r
ReturnOf(k, r) ==
    /\ self' = [self EXCEPT ![k] = r.self]
    /\ result' = [result EXCEPT ![k] = r.result]
    /\ failure' = [failure EXCEPT ![k] = r.failure]
    /\ pc' = [pc EXCEPT ![k] = "idle"]

\* lines 123-125 in instance k
OpenOf(k) ==
    /\ pc[k] = "idle" /\ calls[k] = 0
    /\ calls' = [calls EXCEPT ![k] = 1]
    /\ IF file[k].exists
       THEN /\ self' = ReadInto(self, k, file[k].bytes)
            /\ pc' = [pc EXCEPT ![k] = "validate"]
            /\ UNCHANGED <<result, failure>>
       ELSE ReturnOf(k, [self |-> self[k], result |-> "False",
                         failure |-> "FileNotFoundError"])
    /\ UNCHANGED <<file, img, first>>

\* lines 127-128 in instance k
ValidateMagicOf(k) ==
    /\ pc[k] = "validate"
    /\ IF _validate_magic(self[k])
       THEN pc' = [pc EXCEPT ![k] = "header"] /\ UNCHANGED <<self, result, failure>>
       ELSE ReturnOf(k, [self |-> self[k], result |-> "False",
                         failure |-> "magic"])
    /\ UNCHANGED <<file, img, calls, first>>

\* lines 130-142 in instance k
ParseBodyOf(k) ==
    /\ pc[k] = "header"
    /\ ReturnOf(k, BodyResult(self[k]))
    /\ UNCHANGED <<file, img, calls, first>>

OpenOne == \E k \in 1..2 : OpenOf(k)
ValidateMagicOne == \E k \in 1..2 : ValidateMagicOf(k)
ParseBodyOne == \E k \in 1..2 : ParseBodyOf(k)

NextTwo == OpenOne \/ ValidateMagicOne \/ ParseBodyOne

SpecTwo == InitTwo /\ [][NextTwo]_vars

\* C17: parses share no mutable state: of two DexParser instances that
\* parse two different files, their steps interleaved in any order, each
\* ends with the result, header and tables it has when it parses its file
\* alone.
C17_ParsesIndependent ==
    \A k \in 1..2 :
        (pc[k] = "idle" /\ calls[k] = 1) =>
            [self |-> self[k], result |-> result[k], failure |-> failure[k]]
              = ParseAlone(file[k])

\* the second parser read its file and returned between the read and the
\* magic check of the first; the two ended differently
C17_Witness ==
    /\ pc = <<"idle", "idle">> /\ calls = <<1, 1>>
    /\ failure[1] = "struct.error"
    /\ failure[2] = "magic"
    /\ self[1].data # self[2].data
    /\ Len(self[2].data) = 112

\* parse() as one function of the file is parse() run step by step
ParseAloneAsSpec ==
    (Returned /\ calls = 1) =>
        [self |-> self, result |-> result, failure |-> failure] = ParseAlone(file)

\* -------------------------------------------------------------- DexEditor
\* DexEditor.load_dex_file called up to MaxLoads times on the files of a
\* directory.  file is the directory, path to file; self is the editor:
\* current_file, the Smali viewer's current_dex_path, the structure
\* viewer's dex_parser and the paths file_opened was emitted with; img is
\* the paths of the calls made and result the dialogs shown, in order.
\* file_label is the text of the label of the toolbar.

Paths == {"missing.dex", "empty.dex", "short.dex", "magic.dex",
          "version.dex", "minimal.dex", "base.dex"}

\* dex_tools.py lines 210 and 215
ToolMagic == <<100, 101, 120, 10>>
ToolVersions == {<<48, 51, 53, 0>>, <<48, 51, 55, 0>>,
                 <<48, 51, 56, 0>>, <<48, 51, 57, 0>>}

EditorFiles ==
    [p \in Paths |->
       CASE p = "missing.dex" -> [exists |-> FALSE, bytes |-> <<>>]
         [] p = "empty.dex" ->
              [exists |-> TRUE, bytes |-> <<>>]
         [] p = "short.dex" ->
              [exists |-> TRUE,
               bytes |-> FileBytes([BaseImage EXCEPT !.cut = 111])]
         [] p = "magic.dex" ->
              [exists |-> TRUE,
               bytes |-> FileBytes(HeaderImage(<<100, 101, 121, 10>>,
                                               <<48, 51, 53, 0>>, "distinct", 0, 112))]
         [] p = "version.dex" ->
              [exists |-> TRUE,
               bytes |-> FileBytes(HeaderImage(DEX_MAGIC, <<48, 51, 53, 1>>,
                                               "distinct", 0, 112))]
         [] p = "minimal.dex" ->
              [exists |-> TRUE, bytes |-> FileBytes(MinimalImage(2))]
         [] p = "base.dex" ->
              [exists |-> TRUE, bytes |-> FileBytes(BaseImage)]]

\* the validation without the test of the file size
validate_dex_file_NoSize(f) ==
    IF ~f.exists THEN [ok |-> FALSE, message |-> "File not found"]
    ELSE IF PySlice(f.bytes, <<>>, <<4>>) # ToolMagic
    THEN [ok |-> FALSE, message |-> "Invalid DEX magic number"]
    ELSE IF PySlice(f.bytes, <<4>>, <<8>>) \notin ToolVersions
    THEN [ok |-> FALSE, message |-> "Unsupported DEX version"]
    ELSE [ok |-> TRUE, message |-> "Valid DEX file"]

\* DexTools.validate_dex_file (dex_tools.py lines 195-222): (is_valid,
\* message), the message without the path or the version it quotes
validate_dex_file(f) ==
    IF ~f.exists THEN [ok |-> FALSE, message |-> "File not found"]
    ELSE IF Len(f.bytes) < 112
    THEN [ok |-> FALSE, message |-> "File too small to be a valid DEX file"]
    ELSE IF PySlice(f.bytes, <<>>, <<4>>) # ToolMagic
    THEN [ok |-> FALSE, message |-> "Invalid DEX magic number"]
    ELSE IF PySlice(f.bytes, <<4>>, <<8>>) \notin ToolVersions
    THEN [ok |-> FALSE, message |-> "Unsupported DEX version"]
    ELSE [ok |-> TRUE, message |-> "Valid DEX file"]

Warning(title, message) ==
    [kind |-> "warning", title |-> title, message |-> message]
Information(title, message) ==
    [kind |-> "information", title |-> title, message |-> message]

\* None in an attribute that holds a path
NoPath == "None"

InitEditor ==
    /\ file = EditorFiles
    /\ img = <<>>
    /\ self = [current_file |-> NoPath, current_dex_path |-> NoPath,
               file_label |-> "No file loaded",
               dex_parser |-> None, emitted |-> <<>>]
    /\ pc = "idle"
    /\ result = <<>>
    /\ failure = "none"
    /\ calls = 0
    /\ first = NoOutput

\* line 431: f"File: {Path(file_path).name}"
LabelOf(path) == "File: " \o path

\* dex_editor.py lines 430-441, after a validation that passed and a
\* DexStructureViewer.load_dex_file (lines 50-61) whose parse() left r
LoadedFrom(ed, path, r) ==
    IF r.result = "True"
    THEN [ed |-> [current_file |-> path, current_dex_path |-> path,
                  file_label |-> LabelOf(path),
                  dex_parser |-> r.self, emitted |-> Append(ed.emitted, path)],
          dialogs |-> <<Information("Success", "DEX file loaded successfully")>>]
    ELSE [ed |-> [ed EXCEPT !.current_file = path,
                            !.file_label = LabelOf(path),
                            !.dex_parser = r.self],
          dialogs |-> <<Warning("Error", "Failed to parse DEX file")>>]

\* dex_editor.py lines 425-441, from what validate_dex_file returned
ValidatedFrom(ed, path, f, v) ==
    IF ~v.ok
    THEN [ed |-> ed, dialogs |-> <<Warning("Invalid DEX File", v.message)>>]
    ELSE LoadedFrom(ed, path, ParseAlone(f))

\* DexEditor.load_dex_file(file_path) (dex_editor.py lines 419-444)
load_dex_file(ed, path, f) ==
    ValidatedFrom(ed, path, f, validate_dex_file(f))

Loaded(path, r) ==
    /\ self' = r.ed
    /\ result' = result \o r.dialogs
    /\ img' = Append(img, path)
    /\ calls' = calls + 1
    /\ UNCHANGED <<file, pc, failure, first>>

LoadDexFile ==
    /\ calls < MaxLoads
    /\ \E path \in Paths : Loaded(path, load_dex_file(self, path, file[path]))

NextEditor == LoadDexFile

SpecEditor == InitEditor /\ [][NextEditor]_vars

\* the file exists and fails a header-level check: it is shorter than 112
\* bytes, or its magic is wrong, or its version is not supported
HeaderLevelFailure(f) ==
    /\ f.exists
    /\ Len(f.bytes) < 112 \/ ~HasMagic(f.bytes) \/ ~HasVersion(f.bytes)

\* C18: load_dex_file on a file that fails a header-level check shows
\* exactly one dialog, a warning, does not emit file_opened, and leaves
\* current_file and the Smali viewer's current_dex_path as they were.
C18_HeaderFailureOneWarning ==
    [][(calls' = calls + 1 /\ HeaderLevelFailure(file[img'[calls']])) =>
         /\ Len(result') = Len(result) + 1
         /\ result'[Len(result')].kind = "warning"
         /\ self'.emitted = self.emitted
         /\ self'.current_file = self.current_file
         /\ self'.current_dex_path = self.current_dex_path
    ]_vars

\* a file with a wrong magic loaded after one that passed the validation:
\* current_file still names the earlier file
C18_Witness ==
    /\ calls = 2
    /\ img = <<"minimal.dex", "magic.dex">>
    /\ self.current_file = "minimal.dex"
    /\ Len(result) = 2
    /\ result[2] = [kind |-> "warning", title |-> "Invalid DEX File",
                    message |-> "Invalid DEX magic number"]
    /\ self.emitted = <<>>

\* ------------------------------------------------------ parse(), by stage
\* one call of parse() with one action a stage: pc is the line the call
\* stands at and the stages it has started.  The call starts at line 123 on
\* a fresh parser (calls = 1 once it has).  Since _parse_header raises on
\* every file that reaches it (ParseBody), the six calls of lines 131-136
\* are also made as a unit test makes them (calls = 0): in that order, on a
\* parser whose header is set to the values the file was written from, an
\* exception ending the run; there result, the value parse() returns, stays
\* "none".

\* the stages of lines 130-136 in their order
StageOrder == <<"header">> \o Stages

\* lines 131-136 with _parse_type_ids called before _parse_string_ids
StageAfter_TypesFirst(stage) ==
    CASE stage = "header" -> "type_ids"
      [] stage = "type_ids" -> "string_ids"
      [] stage = "string_ids" -> "proto_ids"
      [] stage = "proto_ids" -> "field_ids"
      [] stage = "field_ids" -> "method_ids"
      [] stage = "method_ids" -> "class_defs"
      [] stage = "class_defs" -> "return"

\* the line after the call of a stage that returned
StageAfter(stage) ==
    CASE stage = "header" -> "string_ids"
      [] stage = "string_ids" -> "type_ids"
      [] stage = "type_ids" -> "proto_ids"
      [] stage = "proto_ids" -> "field_ids"
      [] stage = "field_ids" -> "method_ids"
      [] stage = "method_ids" -> "class_defs"
      [] stage = "class_defs" -> "return"

InitStaged ==
    /\ \/ /\ img \in Images
          /\ self = NewParser
          /\ pc = [at |-> "idle", started |-> <<>>]
       \/ /\ img \in TableImages
          /\ self = [NewParser EXCEPT !.data = FileBytes(img), !.header = img.hdr]
          /\ pc = [at |-> StageAfter("header"), started |-> <<"header">>]
    /\ file = [exists |-> TRUE, bytes |-> FileBytes(img)]
    /\ result = "none"
    /\ failure = "none"
    /\ calls = 0
    /\ first = NoOutput

\* lines 123-125
StagedOpen ==
    /\ pc.at = "idle" /\ calls = 0
    /\ calls' = 1
    /\ self' = [self EXCEPT !.data = file.bytes]
    /\ pc' = [pc EXCEPT !.at = "validate"]
    /\ UNCHANGED <<file, img, result, failure, first>>

\* lines 127-128
StagedValidate ==
    /\ pc.at = "validate"
    /\ IF _validate_magic(self)
       THEN pc' = [pc EXCEPT !.at = "header"] /\ UNCHANGED <<result, failure>>
       ELSE /\ pc' = [pc EXCEPT !.at = "returned"]
            /\ result' = "False"
            /\ failure' = "magic"
    /\ UNCHANGED <<file, img, self, calls, first>>

\* the stage at pc.at left r: on to the next line, to return True after the
\* last stage, or to the except of line 140
StageLeft(r) ==
    /\ self' = r.self
    /\ failure' = r.raised
    /\ result' = IF calls = 0 THEN result
                 ELSE IF r.raised # "none" THEN "False"
                 ELSE IF StageAfter(pc.at) = "return" THEN "True"
                 ELSE result
    /\ pc' = [at |-> IF r.raised # "none" \/ StageAfter(pc.at) = "return"
                     THEN "returned" ELSE StageAfter(pc.at),
              started |-> Append(pc.started, pc.at)]
    /\ UNCHANGED <<file, img, calls, first>>

\* line 130
StagedHeader ==
    /\ pc.at = "header"
    /\ StageLeft(_parse_header(self))

\* lines 131-136, one of them
StagedTable ==
    /\ \E k \in 1..Len(Stages) : pc.at = Stages[k]
    /\ StageLeft(ParseTable(pc.at, self))

NextStaged == StagedOpen \/ StagedValidate \/ StagedHeader \/ StagedTable

SpecStaged == InitStaged /\ [][NextStaged]_vars

\* the place of a stage in StageOrder
OrderIndex(stage) == CHOOSE k \in 1..Len(StageOrder) : StageOrder[k] = stage

\* the table a stage fills
TableOf(p, stage) ==
    CASE stage = "string_ids" -> p.string_ids
      [] stage = "type_ids" -> p.type_ids
      [] stage = "proto_ids" -> p.proto_ids
      [] stage = "field_ids" -> p.field_ids
      [] stage = "method_ids" -> p.method_ids
      [] stage = "class_defs" -> p.class_defs

\* the stage has been started
Started(stage) == \E i \in 1..Len(pc.started) : pc.started[i] = stage

\* C19: parse() runs its stages in the order header, strings, types,
\* prototypes, fields, methods, class definitions, each at most once in a
\* call and none before the magic and version check has passed; a stage
\* starts only when every earlier stage has run to its end, and the tables
\* of the stages that have not started are empty, so a stage can read only
\* what earlier stages filled.
C19_StagesInOrder ==
    /\ \A i \in 1..Len(pc.started) : pc.started[i] = StageOrder[i]
    /\ (calls = 1 /\ pc.started # <<>>) => _validate_magic(self)
    /\ pc.at = "validate" => pc.started = <<>>
    /\ \A k \in 1..Len(Stages) :
         /\ ~Started(Stages[k]) =>
              TableOf(self, Stages[k]) = <<>> /\ (k = 1 => self.strings = <<>>)
         /\ (Started(Stages[k]) /\ k > 1) =>
              \/ SizeOf(self.header, Stages[k - 1]) = <<>>
              \/ SizeOf(self.header, Stages[k - 1])
                   = <<Len(TableOf(self, Stages[k - 1]))>>

\* all seven stages started, in order, the tables filled
C19_Witness ==
    /\ pc.at = "returned"
    /\ pc.started = <<"header", "string_ids", "type_ids", "proto_ids",
                      "field_ids", "method_ids", "class_defs">>
    /\ failure = "none"
    /\ Len(self.class_defs) = 1 /\ Len(self.strings) = 2

\* parse() from its first line: the header is the last stage started
C19_HeaderAfterMagic ==
    /\ calls = 1
    /\ pc.at = "returned"
    /\ pc.started = <<"header">>
    /\ failure = "struct.error"

\* ------------------------------------------------ the sizes of the tables

\* the file is whole and every table its header declares lies inside it
WellFormed(i) == i \in {Image(t) : t \in VariedTables}

SizesAfterStages ==
    (pc = "done" /\ failure = "none") =>
        \A k \in 1..Len(Stages) :
            Big(Len(TableOf(self, Stages[k]))) = SizeOf(self.header, Stages[k])

\* -------------------------------------------------- the reads of the buffer
\* the three reads the parser makes of self.data, each tried on every
\* buffer of at most MaxBuf bytes at every offset, inside the buffer, at
\* its end and past it: a u32 of a table entry (lines 200, 253),
\* _read_uleb128 and _read_string_data.  img is the buffer and the offset,
\* result what the read returned, failure what it raised.

BufChoices == SeqsUpTo({1, 2, 97, 128, 255}, MaxBuf)
OffsetChoices == {Big(k) : k \in 0..(MaxBuf + 1)} \cup {<<0, 1>>, NoIndex}

InitReads ==
    /\ img \in {[data |-> d, offset |-> o] : d \in BufChoices, o \in OffsetChoices}
    /\ file = [exists |-> TRUE, bytes |-> img.data]
    /\ self = [NewParser EXCEPT !.data = img.data]
    /\ pc = "ready"
    /\ result = [value |-> <<>>]
    /\ failure = "none"
    /\ calls = 0
    /\ first = NoOutput

\* the read returned or raised
ReadDone(kind, raised, value) ==
    /\ pc' = kind
    /\ failure' = raised
    /\ result' = value
    /\ UNCHANGED <<file, img, self, calls, first>>

UnpackDone(u) == ReadDone("u32", u.raised, [value |-> u.v])

\* struct.unpack('<I', self.data[offset:offset+4])
UnpackAt ==
    /\ pc = "ready"
    /\ UnpackDone(unpack(<<I>>, Record(self, img.offset, 4)))

\* self._read_uleb128(offset)
Uleb128At ==
    /\ pc = "ready"
    /\ ReadDone("uleb128", "none", _read_uleb128(self.data, img.offset))

\* self._read_string_data(offset)
StringDataAt ==
    /\ pc = "ready"
    /\ ReadDone("string", "none",
                [value |-> _read_string_data(self.data, img.offset)])

NextReads == UnpackAt \/ Uleb128At \/ StringDataAt

SpecReads == InitReads /\ [][NextReads]_vars

\* the offset of the read as a natural, MaxBuf + 2 for one far past the end
OffsetNat ==
    IF InRange(img.offset, MaxBuf + 2) THEN OffNat(img.offset) ELSE MaxBuf + 2

\* the bytes of the buffer from the offset on
Rest == IF OffsetNat >= Len(img.data) THEN <<>>
        ELSE SubSeq(img.data, OffsetNat + 1, Len(img.data))

\* the bytes of the ULEB128 value at the head of s: up to and with the
\* first byte below 128; all of s when it has none
RECURSIVE VarintLen(_)
VarintLen(s) ==
    IF s = <<>> THEN 0
    ELSE IF s[1] < 128 THEN 1
    ELSE 1 + VarintLen(Tail(s))

\* the ULEB128 value at the offset is not whole inside the buffer
VarintCut == Rest = <<>> \/ Rest[VarintLen(Rest)] >= 128

\* C21: a read of the buffer whose offset plus width is past the end of
\* the buffer gives an error, never a default, shortened or empty value:
\* the u32 of a table entry, a ULEB128 value that the end of the buffer
\* cuts, a string whose length prefix is cut.
C21_ReadsPastEndFail ==
    /\ (pc = "u32" /\ OffsetNat + 4 > Len(img.data)) => failure # "none"
    /\ (pc = "uleb128" /\ VarintCut) => failure # "none"
    /\ (pc = "string" /\ VarintCut) => failure # "none"

\* C22: _read_uleb128 ends on every buffer at every offset, a chain of
\* bytes with the high bit set included: it consumes at most
\* max(0, len - offset) bytes, the bytes up to the first one without the
\* high bit, and reads no byte at or past the end of the buffer.
C22_Uleb128Bounded ==
    pc = "uleb128" =>
        /\ failure = "none"
        /\ result.bytes_read <= Len(Rest)
        /\ result.bytes_read = VarintLen(Rest)
        /\ Rest = <<>> => result = [value |-> <<>>, bytes_read |-> 0]

\* a chain of three bytes with the high bit set, read to the end
C22_Witness ==
    /\ pc = "uleb128"
    /\ img.data = <<128, 255, 128>> /\ img.offset = <<>>
    /\ result.bytes_read = 3
    /\ result.value = <<16256>>

\* ------------------------------------------------ the bytes of the entries

\* the little-endian u16 and u32 at byte o (from 0) of the buffer
Le16(o) == self.data[o + 1] + 256 * self.data[o + 2]
Le32(o) == IF Le16(o + 2) # 0 THEN <<Le16(o), Le16(o + 2)>>
           ELSE IF Le16(o) # 0 THEN <<Le16(o)>>
           ELSE <<>>
Le16s(o) == IF Le16(o) # 0 THEN <<Le16(o)>> ELSE <<>>

\* byte table offset + i * stride, for entry i + 1 of the table
EntryAt(off, i, stride) == OffNat(off) + i * stride

\* C23: entry i of each id table is decoded from the bytes at table offset
\* + i * stride, the stride 4 for string ids and type ids (a u32), 12 for
\* prototypes (three u32), 8 for fields and methods (two u16 and a u32) and
\* 32 for class definitions (eight u32), and the raw index fields of the
\* entry are the little-endian values of those bytes.
C23_EntriesFromBytes ==
    /\ \A j \in 1..Len(self.string_ids) :
         self.string_ids[j].string_data_off
           = Le32(EntryAt(self.header.string_ids_off, j - 1, 4))
    /\ \A j \in 1..Len(self.type_ids) :
         self.type_ids[j].descriptor_idx
           = Le32(EntryAt(self.header.type_ids_off, j - 1, 4))
    /\ \A j \in 1..Len(self.proto_ids) :
         /\ self.proto_ids[j].shorty_idx
              = Le32(EntryAt(self.header.proto_ids_off, j - 1, 12))
         /\ self.proto_ids[j].return_type_idx
              = Le32(EntryAt(self.header.proto_ids_off, j - 1, 12) + 4)
         /\ self.proto_ids[j].parameters_off
              = Le32(EntryAt(self.header.proto_ids_off, j - 1, 12) + 8)
    /\ \A j \in 1..Len(self.field_ids) :
         /\ self.field_ids[j].class_idx
              = Le16s(EntryAt(self.header.field_ids_off, j - 1, 8))
         /\ self.field_ids[j].type_idx
              = Le16s(EntryAt(self.header.field_ids_off, j - 1, 8) + 2)
         /\ self.field_ids[j].name_idx
              = Le32(EntryAt(self.header.field_ids_off, j - 1, 8) + 4)
    /\ \A j \in 1..Len(self.method_ids) :
         /\ self.method_ids[j].class_idx
              = Le16s(EntryAt(self.header.method_ids_off, j - 1, 8))
         /\ self.method_ids[j].proto_idx
              = Le16s(EntryAt(self.header.method_ids_off, j - 1, 8) + 2)
         /\ self.method_ids[j].name_idx
              = Le32(EntryAt(self.header.method_ids_off, j - 1, 8) + 4)
    /\ \A j \in 1..Len(self.class_defs) :
         /\ self.class_defs[j].class_idx
              = Le32(EntryAt(self.header.class_defs_off, j - 1, 32))
         /\ self.class_defs[j].access_flags
              = Le32(EntryAt(self.header.class_defs_off, j - 1, 32) + 4)
         /\ self.class_defs[j].superclass_idx
              = Le32(EntryAt(self.header.class_defs_off, j - 1, 32) + 8)
         /\ self.class_defs[j].interfaces_off
              = Le32(EntryAt(self.header.class_defs_off, j - 1, 32) + 12)
         /\ self.class_defs[j].source_file_idx
              = Le32(EntryAt(self.header.class_defs_off, j - 1, 32) + 16)
         /\ self.class_defs[j].annotations_off
              = Le32(EntryAt(self.header.class_defs_off, j - 1, 32) + 20)
         /\ self.class_defs[j].class_data_off
              = Le32(EntryAt(self.header.class_defs_off, j - 1, 32) + 24)
         /\ self.class_defs[j].static_values_off
              = Le32(EntryAt(self.header.class_defs_off, j - 1, 32) + 28)

\* two fields and two class definitions decoded, an index of 65535 in two
\* bytes or of 65536 in four
C23_Witness ==
    /\ pc = "done"
    /\ \/ /\ Len(self.field_ids) = 2
          /\ self.field_ids[1].class_idx = <<65535>>
          /\ self.field_ids[1].name_idx = <<0, 1>>
          /\ self.field_ids[2].type_idx = <<1>>
       \/ /\ Len(self.class_defs) = 2
          /\ self.class_defs[1].superclass_idx = <<0, 1>>
          /\ self.class_defs[2].access_flags = <<1>>

\* ------------------------------------------------ what a stage leaves alone

\* t is s with entries appended, the entries of s as they were
Extends(s, t) == Len(s) <= Len(t) /\ SubSeq(t, 1, Len(s)) = s

\* C24: entities are not changed once they are in their table, and a stage
\* leaves the header, the buffer and the tables of the other stages as they
\* were: a step only appends, and only to the table of the stage that runs.
C24_AppendOnly ==
    [][/\ self'.data = self.data
       /\ self'.header = self.header
       /\ Extends(self.strings, self'.strings)
       /\ \A k \in 1..Len(Stages) :
            /\ Extends(TableOf(self, Stages[k]), TableOf(self', Stages[k]))
            /\ pc # Stages[k]
                 => TableOf(self', Stages[k]) = TableOf(self, Stages[k])
       /\ pc # "string_ids" => self'.strings = self.strings]_vars

\* the six stages have run and each has appended to its table
C24_Witness ==
    /\ pc = "done"
    /\ self.strings # <<>>
    /\ \A k \in 1..Len(Stages) : TableOf(self, Stages[k]) # <<>>

\* ------------------------------------------------- two files, one endian_tag
\* Two files whose bytes differ in the endian_tag of the header only, each
\* with a parser of its own.  file, img, self, result and failure are pairs.
\* Either parse() is called on both parsers, or, the header never being
\* decoded by parse() (see C1), the six table stages are run on both with
\* the header of each set from the values its file was written from.

\* 0x12345678 is the tag of the images; 0, the reversed constant, 0xFFFFFFFF
EndianTags == {<<>>, <<13330, 30806>>, NoIndex}

WithTag(a, e) == [a EXCEPT !.hdr.endian_tag = e]

\* the base file, its header placing the string ids at the endian_tag
TagAsStringIds == [BaseImage EXCEPT !.hdr.string_ids_off = Big(40)]

FileOf(a) == [exists |-> TRUE, bytes |-> FileBytes(a)]

InitEndian ==
    /\ \E e \in EndianTags :
         \/ /\ \E a \in {i \in Images : i.cut >= 44} : img = <<a, WithTag(a, e)>>
            /\ self = <<NewParser, NewParser>>
            /\ pc = "idle"
         \/ /\ \E a \in TableImages \cup {TagAsStringIds} :
                  img = <<a, WithTag(a, e)>>
            /\ self = <<[NewParser EXCEPT !.data = FileBytes(img[1]),
                                          !.header = img[1].hdr],
                        [NewParser EXCEPT !.data = FileBytes(img[2]),
                                          !.header = img[2].hdr]>>
            /\ pc = Stages[1]
    /\ file = <<FileOf(img[1]), FileOf(img[2])>>
    /\ result = <<"none", "none">>
    /\ failure = <<"none", "none">>
    /\ calls = 0
    /\ first = NoOutput

\* parse() on the two parsers
ParseBoth ==
    /\ pc = "idle"
    /\ self' = <<ParseAlone(file[1]).self, ParseAlone(file[2]).self>>
    /\ result' = <<ParseAlone(file[1]).result, ParseAlone(file[2]).result>>
    /\ failure' = <<ParseAlone(file[1]).failure, ParseAlone(file[2]).failure>>
    /\ pc' = "returned"
    /\ calls' = 1
    /\ UNCHANGED <<file, img, first>>

\* after the method of Stages[k] left r1 and r2
StageBothDone(k, r1, r2) ==
    /\ self' = <<r1.self, r2.self>>
    /\ failure' = <<r1.raised, r2.raised>>
    /\ pc' = IF r1.raised # "none" \/ r2.raised # "none" THEN "raised"
             ELSE IF k = Len(Stages) THEN "done"
             ELSE Stages[k + 1]
    /\ UNCHANGED <<file, img, result, calls, first>>

\* the method of the stage at pc called on the two parsers
StageBoth ==
    \E k \in 1..Len(Stages) :
       /\ pc = Stages[k]
       /\ StageBothDone(k, ParseTable(Stages[k], self[1]),
                           ParseTable(Stages[k], self[2]))

NextEndian ==
    \/ ParseBoth
    \/ StageBoth

SpecEndian == InitEndian /\ [][NextEndian]_vars

\* the little-endian u32 at byte o (from 0) of data
Le32In(data, o) ==
    Norm(<<data[o + 1] + 256 * data[o + 2], data[o + 3] + 256 * data[o + 4]>>)

\* no table of parser n and no string data it has read starts in the first
\* 44 bytes of its buffer
ReadsAfterTag(n) ==
    /\ self[n].header # None =>
         \A k \in 1..Len(Stages) :
            \/ SizeOf(self[n].header, Stages[k]) = <<>>
            \/ ~Lt(OffOf(self[n].header, Stages[k]), 44)
    /\ \A j \in 1..Len(self[n].string_ids) :
         ~Lt(self[n].string_ids[j].string_data_off, 44)

\* the two parsers hold equal tables
SameTables ==
    /\ self[1].strings = self[2].strings
    /\ \A k \in 1..Len(Stages) :
         TableOf(self[1], Stages[k]) = TableOf(self[2], Stages[k])

DifferInTagOnly ==
    /\ Len(file[1].bytes) = Len(file[2].bytes)
    /\ file[1].bytes # file[2].bytes
    /\ \A j \in 1..Len(file[1].bytes) :
         j \notin 41..44 => file[1].bytes[j] = file[2].bytes[j]

C26_ValidatedHeaderDecodes ==
    (calls = 1 /\ pc.at = "returned" /\ validate_dex_file(file).ok
       /\ result = "False") =>
        /\ failure # "magic"
        /\ Started("header")
        /\ \E k \in 1..Len(Stages) : pc.started[Len(pc.started)] = Stages[k]

\* ------------------------------------------------- what a failure leaves

RECURSIVE Declared(_)
Declared(s) ==
    IF s = <<>> THEN 0
    ELSE IF s[1] < 128 THEN s[1]
    ELSE (s[1] % 128) + 128 * Declared(Tail(s))

\* the bytes of the buffer after the length prefix at the offset
Body == SubSeq(Rest, VarintLen(Rest) + 1, Len(Rest))

\* of those, the bytes the declared length covers
Taken == SubSeq(Body, 1, Min(Declared(Rest), Len(Body)))

\* C28: a string is decoded from bytes inside the buffer only and from at
\* most the declared length of them: a length that runs past the end of
\* the buffer gives the decoding of the bytes that remain, an offset at or
\* past the end gives the empty string, and neither raises.
C28_StringInsideBuffer ==
    pc = "string" =>
        /\ failure = "none"
        /\ result.value = Utf8Decode(Taken)
        /\ Len(result.value) <= Min(Declared(Rest), Len(Body))
        /\ OffsetNat >= Len(img.data) => result.value = <<>>

\* a length of 2 with one byte left: the string is that byte; an offset at
\* the end of the buffer: the empty string
C28_Witness ==
    /\ pc = "string"
    /\ \/ img = [data |-> <<2, 97>>, offset |-> <<>>] /\ result.value = <<97>>
       \/ img = [data |-> <<2, 97>>, offset |-> <<2>>] /\ result.value = <<>>

\* ------------------------------------------------ the file of the editor

\* file_opened has been emitted for the path: its load succeeded
LoadedOk(path) == \E i \in 1..Len(self.emitted) : self.emitted[i] = path

\* C29: after any calls of load_dex_file, current_file names a file that
\* was loaded successfully and is the Smali viewer's current_dex_path, and
\* the label names that file: a load that passes the validation and fails
\* to parse changes neither.
C29_CurrentFileLoaded ==
    /\ self.current_file = self.current_dex_path
    /\ self.current_file # NoPath => LoadedOk(self.current_file)
    /\ self.file_label = IF self.current_dex_path = NoPath
                         THEN "No file loaded"
                         ELSE LabelOf(self.current_dex_path)

\* ----------------------------------------------------------- DexSmaliViewer
\* The Smali tab and its conversion workers.  self is the viewer:
\* current_dex_path, current_smali_dir, whether the progress bar is visible,
\* the text of the status label and the worker self.worker holds (0: none).
\* pc is the SmaliWorker threads started, in order: the operation, the
\* place run() stands at and the number of operation_finished it has
\* emitted.  file is the event queue of the main thread: the signals the
\* workers emitted, which cross threads and are delivered in order.  result
\* is the dialogs shown; calls counts the clicks on the two buttons.  The
\* buttons stay enabled while a worker runs, and a worker that self.worker
\* no longer names runs on to the end of run().  failure is "aborted" once
\* the process has been aborted.

InitSmali ==
    /\ self = [current_dex_path |-> NoPath, current_smali_dir |-> NoPath,
               progress_visible |-> FALSE, status |-> "Ready", worker |-> 0]
    /\ pc = <<>>
    /\ file = <<>>
    /\ img = "Smali"
    /\ result = <<>>
    /\ failure = "none"
    /\ calls = 0
    /\ first = NoOutput

\* set_dex_file(dex_path) (dex_editor.py lines 258-260)
SetDexFile ==
    /\ failure = "none"
    /\ self.current_dex_path = NoPath
    /\ self' = [self EXCEPT !.current_dex_path = "classes.dex"]
    /\ UNCHANGED <<file, img, pc, result, failure, calls, first>>

\* open_smali_directory (lines 324-331), a directory chosen
OpenSmaliDirectory ==
    /\ failure = "none"
    /\ self.current_smali_dir = NoPath
    /\ self' = [self EXCEPT !.current_smali_dir = "smali"]
    /\ UNCHANGED <<file, img, pc, result, failure, calls, first>>

\* lines 274-285 and 299-310: the bar shown, the status set, the worker
\* made, kept in self.worker and started
StartWorker(operation, status) ==
    /\ self' = [self EXCEPT !.progress_visible = TRUE, !.status = status,
                            !.worker = Len(pc) + 1]
    /\ pc' = Append(pc, [operation |-> operation, at |-> "start", emits |-> 0])
    /\ UNCHANGED result

\* a click that starts nothing: no path (a warning) or the dialog cancelled
NotStarted(path, message) ==
    /\ result' = IF path = NoPath THEN Append(result, Warning("Warning", message))
                 ELSE result
    /\ UNCHANGED <<self, pc>>

\* convert_dex_to_smali (lines 262-285)
ConvertDexToSmali ==
    /\ failure = "none"
    /\ calls < MaxConversions
    /\ calls' = calls + 1
    /\ \E output_dir \in {"", "out"} :
          IF self.current_dex_path = NoPath \/ output_dir = ""
          THEN NotStarted(self.current_dex_path, "No DEX file selected")
          ELSE StartWorker("dex2smali", "Converting DEX to Smali...")
    /\ UNCHANGED <<file, img, failure, first>>

\* convert_smali_to_dex (lines 287-310)
ConvertSmaliToDex ==
    /\ failure = "none"
    /\ calls < MaxConversions
    /\ calls' = calls + 1
    /\ \E output_file \in {"", "out.dex"} :
          IF self.current_smali_dir = NoPath \/ output_file = ""
          THEN NotStarted(self.current_smali_dir, "No Smali directory selected")
          ELSE StartWorker("smali2dex", "Converting Smali to DEX...")
    /\ UNCHANGED <<file, img, failure, first>>

\* the signal put on the queue of the main thread
Emitted(signal, w, arg) == Append(file, [signal |-> signal, worker |-> w, arg |-> arg])

\* run() of worker w at a progress_callback of dex_to_smali or smali_to_dex
\* (dex_tools.py lines 120, 131, 138 and 164, 175, 182)
Progressed(w, text, next) ==
    /\ file' = Emitted("progress_updated", w, text)
    /\ pc' = [pc EXCEPT ![w].at = next]

\* run() of worker w at its operation_finished.emit (dex_tools.py line 49):
\* the conversion has returned (success, message)
Finished(w, success) ==
    /\ file' = Emitted("operation_finished", w, success)
    /\ pc' = [pc EXCEPT ![w].at = "finished", ![w].emits = @ + 1]

\* SmaliWorker.run (dex_tools.py lines 31-52), a step of it: the conversion
\* fails before its first message (no file, no tool), or after the tool has
\* run, or goes through its three messages and returns success
WorkerStep ==
    /\ failure = "none"
    /\ \E w \in 1..Len(pc) :
          \/ pc[w].at = "start" /\ Finished(w, FALSE)
          \/ pc[w].at = "start"
               /\ Progressed(w, "Starting conversion...", "command")
          \/ pc[w].at = "command" /\ Progressed(w, "Running tool...", "tool")
          \/ pc[w].at = "tool" /\ Finished(w, FALSE)
          \/ pc[w].at = "tool"
               /\ Progressed(w, "Conversion completed successfully", "return")
          \/ pc[w].at = "return" /\ Finished(w, TRUE)
    /\ UNCHANGED <<self, img, result, failure, calls, first>>

\* the main thread delivers progress_updated to status_label.setText
\* (lines 284, 309)
DeliverProgress ==
    /\ failure = "none"
    /\ file # <<>>
    /\ file[1].signal = "progress_updated"
    /\ self' = [self EXCEPT !.status = file[1].arg]
    /\ file' = Tail(file)
    /\ UNCHANGED <<img, pc, result, failure, calls, first>>

\* on_conversion_finished(success, message) (lines 312-322), called when
\* the main thread delivers operation_finished
OnConversionFinished ==
    /\ failure = "none"
    /\ file # <<>>
    /\ file[1].signal = "operation_finished"
    /\ self' = [self EXCEPT !.progress_visible = FALSE, !.status = "Ready"]
    /\ result' = Append(result,
                        IF file[1].arg THEN Information("Success", "converted")
                        ELSE Warning("Error", "not converted"))
    /\ file' = Tail(file)
    /\ UNCHANGED <<img, pc, failure, calls, first>>

\* line 282 or 307 has dropped the last reference to a worker whose thread
\* was running.  The call of run() keeps the object until run() returns;
\* the QThread is then destroyed, and if its thread has not ended by then
\* Qt aborts the process ("QThread: Destroyed while thread is still
\* running").  Whether it has is a race: the abort may or may not happen.
WorkerDestroyed ==
    /\ failure = "none"
    /\ \E w \in 1..Len(pc) : w # self.worker /\ pc[w].at = "finished"
    /\ failure' = "aborted"
    /\ UNCHANGED <<file, img, self, pc, result, calls, first>>

NextSmali ==
    \/ SetDexFile
    \/ OpenSmaliDirectory
    \/ ConvertDexToSmali
    \/ ConvertSmaliToDex
    \/ WorkerStep
    \/ DeliverProgress
    \/ OnConversionFinished
    \/ WorkerDestroyed

SpecSmali == InitSmali /\ [][NextSmali]_vars

\* worker w has not come to its operation_finished.emit
Running(w) == pc[w].at # "finished"

\* the operation_finished of worker w has not been delivered
Pending(w) ==
    \E i \in 1..Len(file) :
       file[i].signal = "operation_finished" /\ file[i].worker = w

\* C30: the progress bar of the Smali viewer is visible exactly while a
\* conversion worker is at work (until its operation_finished has been
\* handled): every run of a worker emits operation_finished once, and the
\* completion of a first worker neither hides the bar nor sets the status
\* to 'Ready' while a second one is still running.
C30_ProgressWhileRunning ==
    /\ \A w \in 1..Len(pc) :
         pc[w].emits = IF Running(w) THEN 0 ELSE 1
    /\ self.progress_visible
         <=> \E w \in 1..Len(pc) : Running(w) \/ Pending(w)
    /\ (\E w \in 1..Len(pc) : Running(w)) =>
         (self.progress_visible /\ self.status # "Ready")

====
